---- MODULE Spec2Model ----
(***************************************************************************)
(* A model of the pp video player controller (video-player/):             *)
(*   - the mpv JSON IPC client   internal/mpv/ipc.go   (Client)            *)
(*   - the resume timestamp store internal/pp/timestamps.go                *)
(*   - the round trips the session controller makes, internal/pp/app.go    *)
(*   - the session controller's key and event handlers, internal/pp/app.go *)
(*                                                                         *)
(* Goroutines are processes with a program counter; a step is the code     *)
(* between two points where another goroutine can observe or interfere.    *)
(***************************************************************************)
EXTENDS Integers, Sequences, FiniteSets, TLC

(***************************************************************************)
(* Bounds of the model.                                                    *)
(***************************************************************************)
\* Request identifiers handed out in one run (nextID runs 1..MaxID+1).
MaxID == 2
\* Records that may sit unread in the socket at one time.
MaxInbox == 2
\* Capacity of the event channel.  Dial makes it 128 (ipc.go:64); the
\* reader's code does not depend on the number, and the model runs it small
\* so that the full channel is reached.
EventsCap == 2
\* Largest offset (in seconds) a task stores.
MaxSec == 2
\* Inodes of the file system: the target, the temporary file, and files that
\* lost their name while a task still has them open.
MaxInodes == 4
\* len(a.Playlist), the number of files the controller was started with.
PlLen == 2

(***************************************************************************)
(* Processes.                                                              *)
(***************************************************************************)
\* Goroutines that call Command: the foreground (Run), the event task
\* (eventLoop) and the sampler (periodicSaveLoop).
Tasks == {"fg", "ev", "sm"}
\* The reader goroutine started by Dial.
Reader == "reader"
\* Goroutines that call Close: main (its deferred client.Close(), and any
\* further call it makes), plus the reader on a read error.
AppClosers == {"main"}
Closers == AppClosers \cup {Reader}

Ids == 1..MaxID
\* A request identifier the client never handed out.
UnknownId == 0
NoId == -1
NoReply == [id |-> NoId]

EventNames == {"property-change", "end-file", "file-loaded"}
\* The event names the transport specification sends: the transport treats
\* all names alike, two are enough to tell the order of events.
IPCEventNames == {"end-file", "file-loaded"}

\* A record on the wire, as readLoop tells them apart.
ReplyRec(i) == [t |-> "reply", id |-> i, name |-> ""]
EventRec(n) == [t |-> "event", id |-> NoId, name |-> n]
\* A line that fails json.Unmarshal, or has neither request_id nor event.
JunkRec == [t |-> "junk", id |-> NoId, name |-> ""]

VARIABLES
  \* ---- mpv.Client ----
  nextID,        \* c.nextID
  pending,       \* DOMAIN of c.pending; the channel of id i is chBuf[i]
  chBuf,         \* the buffer (capacity 1) of the reply channel made for id i
  closedSig,     \* c.closed is closed
  connClosed,    \* c.conn.Close() was called
  closeOnce,     \* c.closeOnce: "new", "running", "done"
  nSigClose,     \* times close(c.closed) ran
  nConnClose,    \* times c.conn.Close() ran
  panicked,      \* a goroutine panicked (close of a closed channel, send on one)
  events,        \* c.events, the buffered event channel
  eventsClosed,  \* c.events is closed
  nEventsClose,  \* times close(c.events) ran
  sawEnd,        \* a consumer received end-of-stream from c.events
  \* ---- the socket and the subprocess ----
  inbox,         \* records written by the subprocess, not yet read
  sent,          \* request ids the subprocess has received
  peerClosed,    \* the subprocess closed its end
  \* ---- goroutines ----
  rdPc,          \* the reader's position in readLoop
  rdCh,          \* the channel the reader took out of c.pending
  rdId,          \* the RequestID of the reply the reader decoded
  clPc,          \* each closer's position inside Close
  cPc,           \* each task's position inside CommandData
  cId,           \* the id of the task's call
  cSite,         \* the call site of the task's call
  cDeadline,     \* the call's context has a deadline
  cExpired,      \* the call's context is done
  cOut,          \* how the task's last call ended
  cGot,          \* the RequestID of the reply the task's last call returned
  \* ---- the timestamp store (pp.TimestampStore) and its backing file ----
  tsPath,        \* t.path: "" for an in-memory store
  tsM,           \* t.m
  fsName,        \* the directory: file name -> inode, NoInode when absent
  fsData,        \* the content of each inode, a sequence of lines
  fsDenied,      \* inodes the process may not read
  svPc,          \* each task's position inside Save
  svMap,         \* the mapping the task's Save handed to MarshalIndent, while it runs
  svFd,          \* the inode the task's os.WriteFile has open
  svRet,         \* what the task's last Save returned: "none", "ok", "err"
  crashed,       \* the process was killed
  ldM,           \* the map of a fresh store after NewTimestampStore(path).Load()
  ldRet,         \* what that Load returned: "none", "ok", "err"
  \* ---- the session controller (pp.App) and the subprocess it drives ----
  Index,          \* a.Index
  pauseAfterLoad, \* a.pauseAfterLoad
  Continuous,     \* a.Continuous
  AutoPlay,       \* a.AutoPlay
  ResumeState,    \* a.ResumeState
  mpvPos,         \* the subprocess's playlist-pos, -1 when it plays nothing
  runState,       \* App.Run: "running", how it returned, or "panic"
  fgPc,           \* the foreground task's position in the handler of a key
  fgArg,          \* the argument of that handler (the index of an open)
  fgCmds,         \* the commands that handler has issued, in order
  fgRet,          \* the error that handler returned: "none" while it runs, "nil", ...
  evPc,           \* the event task's position in the handler of an event
  evCmds,         \* the commands that handler has issued, in order
  lastSample,     \* lastSamplePath and lastSamplePos of the periodic sampler
  smPc,           \* the sampler task: "wait" for a tick, "sample", "done" once returned
  evArg,          \* the number the event task has in hand: an event's data, a reply's
  savedAgo        \* whole seconds since the sampler set a.lastSavedAt, SaveEvery for more

ipcVars == <<nextID, pending, chBuf, closedSig, connClosed, closeOnce, nSigClose,
             nConnClose, panicked, events, eventsClosed, nEventsClose,
             sawEnd, inbox, sent, peerClosed, rdPc, rdCh, rdId,
             clPc, cPc, cId, cSite, cDeadline, cExpired, cOut, cGot>>

storeVars == <<tsPath, tsM, fsName, fsData, fsDenied, svPc, svMap, svFd, svRet,
               crashed, ldM, ldRet>>

appVars == <<Index, pauseAfterLoad, Continuous, AutoPlay, ResumeState, mpvPos,
             runState, fgPc, fgArg, fgCmds, fgRet, evPc, evCmds, lastSample, smPc,
             evArg, savedAgo>>

vars == <<ipcVars, storeVars, appVars>>

(***************************************************************************)
(* Dial (ipc.go:59-67): the client after construction, reader started.     *)
(***************************************************************************)
InitClient ==
  /\ nextID = 1
  /\ pending = {}
  /\ chBuf = [i \in Ids |-> NoReply]
  /\ closedSig = FALSE
  /\ connClosed = FALSE
  /\ closeOnce = "new"
  /\ nSigClose = 0
  /\ nConnClose = 0
  /\ panicked = FALSE
  /\ events = <<>>
  /\ eventsClosed = FALSE
  /\ nEventsClose = 0
  /\ sawEnd = FALSE
  /\ inbox = <<>>
  /\ sent = {}
  /\ peerClosed = FALSE
  /\ rdPc = "read"
  /\ rdCh = NoId
  /\ rdId = NoId
  /\ clPc = [k \in Closers |-> "idle"]
  /\ cPc = [c \in Tasks |-> "idle"]
  /\ cId = [c \in Tasks |-> NoId]
  /\ cSite = [c \in Tasks |-> "none"]
  /\ cDeadline = [c \in Tasks |-> FALSE]
  /\ cExpired = [c \in Tasks |-> FALSE]
  /\ cOut = [c \in Tasks |-> "none"]
  /\ cGot = [c \in Tasks |-> NoId]

(***************************************************************************)
(* Client.CommandData (ipc.go:156-188).                                    *)
(***************************************************************************)
\* An allocation that hands out the same identifier again.
NextIdSame(n) == n

\* c.nextID++ (ipc.go:159).
NextIdAfter(n) == n + 1

\* ipc.go:157-162, under c.mu: take the next id, make its reply channel
\* (capacity 1) and register it.  `site` is the call site, `d` whether its
\* context carries a deadline.
Register(c, site, d) ==
  /\ UNCHANGED <<storeVars, appVars>>
  /\ cPc[c] = "idle"
  /\ nextID <= MaxID
  /\ nextID' = NextIdAfter(nextID)
  /\ pending' = pending \cup {nextID}
  /\ chBuf' = [chBuf EXCEPT ![nextID] = NoReply]
  /\ cPc' = [cPc EXCEPT ![c] = "write"]
  /\ cId' = [cId EXCEPT ![c] = nextID]
  /\ cSite' = [cSite EXCEPT ![c] = site]
  /\ cDeadline' = [cDeadline EXCEPT ![c] = d]
  /\ cExpired' = [cExpired EXCEPT ![c] = FALSE]
  /\ cOut' = [cOut EXCEPT ![c] = "none"]
  /\ cGot' = [cGot EXCEPT ![c] = NoId]
  /\ UNCHANGED <<closedSig, connClosed, closeOnce, nSigClose, nConnClose, panicked,
                 events, eventsClosed, nEventsClose, sawEnd, inbox, sent, peerClosed, rdPc, rdCh, rdId, clPc>>

\* ipc.go:173-175: c.conn.Write.  On a connection closed by Close, or whose
\* peer is gone, the write fails and CommandData returns that error; the
\* entry registered above stays in c.pending.
WriteFails == connClosed \/ peerClosed

Write(c) ==
  /\ UNCHANGED <<storeVars, appVars>>
  /\ cPc[c] = "write"
  /\ IF WriteFails
       THEN /\ cPc' = [cPc EXCEPT ![c] = "ret"]
            /\ cOut' = [cOut EXCEPT ![c] = "writeerr"]
            /\ sent' = sent
       ELSE /\ cPc' = [cPc EXCEPT ![c] = "select"]
            /\ cOut' = cOut
            /\ sent' = sent \cup {cId[c]}
  /\ UNCHANGED <<nextID, pending, chBuf, closedSig, connClosed, closeOnce, nSigClose,
                 nConnClose, panicked, events, eventsClosed, nEventsClose, sawEnd,
                 inbox, peerClosed, rdPc, rdCh, rdId, clPc, cId,
                 cSite, cDeadline, cExpired, cGot>>

\* The cases of the select at ipc.go:177-187 that can proceed for task c.
ReadyCases(c) ==
  (IF cExpired[c] THEN {"timeout"} ELSE {})
    \cup (IF closedSig THEN {"closed"} ELSE {})
    \cup (IF chBuf[cId[c]] # NoReply THEN {"reply"} ELSE {})

\* ipc.go:177: the goroutine reaches the select.  If cases can proceed one of
\* them is chosen (Go picks pseudo-randomly) and the call returns; if none
\* can, the goroutine parks on all three channels.
Select(c) ==
  /\ UNCHANGED <<storeVars, appVars>>
  /\ cPc[c] = "select"
  /\ IF ReadyCases(c) = {}
       THEN /\ cPc' = [cPc EXCEPT ![c] = "blocked"]
            /\ UNCHANGED <<cOut, cGot, chBuf>>
       ELSE \E o \in ReadyCases(c) :
            /\ cPc' = [cPc EXCEPT ![c] = "ret"]
            /\ cOut' = [cOut EXCEPT ![c] = o]
            /\ cGot' = [cGot EXCEPT ![c] = IF o = "reply" THEN chBuf[cId[c]].id ELSE NoId]
            /\ chBuf' = IF o = "reply" THEN [chBuf EXCEPT ![cId[c]] = NoReply] ELSE chBuf
  /\ UNCHANGED <<nextID, pending, closedSig, connClosed, closeOnce, nSigClose,
                 nConnClose, panicked, events, eventsClosed, nEventsClose, sawEnd,
                 inbox, sent, peerClosed, rdPc, rdCh, rdId, clPc,
                 cId, cSite, cDeadline, cExpired>>

\* A parked goroutine is made runnable by the first channel operation that
\* reaches it, and that operation fixes the case its select returns.  The
\* goroutine then runs ipc.go:178-186 and CommandData returns (as it does at
\* ipc.go:174 after a failed write).  The call's channel and context are
\* garbage from here on; the model forgets the finished call.
Return(c) ==
  /\ UNCHANGED <<storeVars, appVars>>
  /\ cPc[c] = "ret"
  /\ cPc' = [cPc EXCEPT ![c] = "idle"]
  /\ chBuf' = [chBuf EXCEPT ![cId[c]] = NoReply]
  /\ cId' = [cId EXCEPT ![c] = NoId]
  /\ cSite' = [cSite EXCEPT ![c] = "none"]
  /\ cDeadline' = [cDeadline EXCEPT ![c] = FALSE]
  /\ cExpired' = [cExpired EXCEPT ![c] = FALSE]
  /\ cOut' = [cOut EXCEPT ![c] = "none"]
  /\ cGot' = [cGot EXCEPT ![c] = NoId]
  /\ UNCHANGED <<nextID, pending, closedSig, connClosed, closeOnce, nSigClose,
                 nConnClose, panicked, events, eventsClosed, nEventsClose, sawEnd,
                 inbox, sent, peerClosed, rdPc, rdCh, rdId, clPc>>

\* The deadline of the call's context passes: ctx.Done() is closed
\* (context.WithTimeout, app.go:182-185).  A call parked in the select is
\* woken with the ctx.Done case.  CommandData looks at the context only in
\* the select, so a deadline that passes earlier is seen there.
Expire(c) ==
  /\ UNCHANGED <<storeVars, appVars>>
  /\ cDeadline[c]
  /\ ~cExpired[c]
  /\ cPc[c] \in {"select", "blocked"}
  /\ cExpired' = [cExpired EXCEPT ![c] = TRUE]
  /\ IF cPc[c] = "blocked"
       THEN /\ cPc' = [cPc EXCEPT ![c] = "ret"]
            /\ cOut' = [cOut EXCEPT ![c] = "timeout"]
       ELSE UNCHANGED <<cPc, cOut>>
  /\ UNCHANGED <<nextID, pending, chBuf, closedSig, connClosed, closeOnce, nSigClose,
                 nConnClose, panicked, events, eventsClosed, nEventsClose, sawEnd,
                 inbox, sent, peerClosed, rdPc, rdCh, rdId, clPc,
                 cId, cSite, cDeadline, cGot>>

(***************************************************************************)
(* Client.Close (ipc.go:79-96).                                            *)
(***************************************************************************)
closeState == <<closedSig, connClosed, closeOnce, nSigClose, nConnClose>>
eventState == <<events, eventsClosed, nEventsClose, sawEnd>>
peerState == <<inbox, sent, peerClosed>>
readerState == <<rdPc, rdCh, rdId>>
callState == <<cPc, cId, cSite, cDeadline, cExpired, cOut, cGot>>

\* An application goroutine calls Close.
CloseCall(k) ==
  /\ UNCHANGED <<storeVars, appVars>>
  /\ k \in AppClosers
  /\ clPc[k] = "idle"
  /\ clPc' = [clPc EXCEPT ![k] = "enter"]
  /\ UNCHANGED <<nextID, pending, chBuf, closeState, panicked, eventState,
                 peerState, readerState, callState>>

\* Mutant: no Once, every Close call runs the body.
OnceDoUnguarded(once) == "run"

\* c.closeOnce.Do (ipc.go:84): what the caller finds.  "run": it is the first
\* and runs the body; "skip": the body has run, Do returns at once; "wait":
\* the body is running in another goroutine, Do blocks until it is done.
OnceDo(once) ==
  CASE once = "new" -> "run"
    [] once = "running" -> "wait"
    [] OTHER -> "skip"

CloseEnter(k) ==
  /\ UNCHANGED <<storeVars, appVars>>
  /\ clPc[k] = "enter"
  /\ OnceDo(closeOnce) # "wait"
  /\ IF OnceDo(closeOnce) = "run"
       THEN /\ closeOnce' = "running"
            /\ clPc' = [clPc EXCEPT ![k] = "signal"]
       ELSE /\ closeOnce' = closeOnce
            /\ clPc' = [clPc EXCEPT ![k] = "ret"]
  /\ UNCHANGED <<nextID, pending, chBuf, closedSig, connClosed, nSigClose,
                 nConnClose, panicked, eventState, peerState, readerState, callState>>

\* The calls parked in the select of CommandData.
Blocked == {c \in Tasks : cPc[c] = "blocked"}

\* Mutant: Close without close(c.closed): it only clears the table and
\* closes the connection.
CloseSignalMissing(k) ==
  /\ UNCHANGED <<storeVars, appVars>>
  /\ clPc[k] = "signal"
  /\ clPc' = [clPc EXCEPT ![k] = "clear"]
  /\ UNCHANGED <<nextID, pending, chBuf, closeState, panicked, eventState,
                 peerState, readerState, callState>>

\* ipc.go:85: close(c.closed).  Closing a closed channel panics.  Every call
\* parked in the select is woken with the c.closed case.
CloseSignal(k) ==
  /\ UNCHANGED <<storeVars, appVars>>
  /\ clPc[k] = "signal"
  /\ IF closedSig
       THEN /\ panicked' = TRUE
            /\ clPc' = [clPc EXCEPT ![k] = "panic"]
            /\ UNCHANGED <<closedSig, nSigClose, cPc, cOut>>
       ELSE /\ closedSig' = TRUE
            /\ nSigClose' = nSigClose + 1
            /\ clPc' = [clPc EXCEPT ![k] = "clear"]
            /\ cPc' = [c \in Tasks |-> IF c \in Blocked THEN "ret" ELSE cPc[c]]
            /\ cOut' = [c \in Tasks |-> IF c \in Blocked THEN "closed" ELSE cOut[c]]
            /\ panicked' = panicked
  /\ UNCHANGED <<nextID, pending, chBuf, connClosed, closeOnce, nConnClose,
                 eventState, peerState, readerState, cId, cSite,
                 cDeadline, cExpired, cGot>>

\* ipc.go:87-89: under c.mu, c.pending is replaced by an empty map.
ClosePending(k) ==
  /\ UNCHANGED <<storeVars, appVars>>
  /\ clPc[k] = "clear"
  /\ pending' = {}
  /\ clPc' = [clPc EXCEPT ![k] = "conn"]
  /\ UNCHANGED <<nextID, chBuf, closeState, panicked, eventState, peerState,
                 readerState, callState>>

\* ipc.go:91-94: c.conn.Close(), and the Once is done.
CloseConn(k) ==
  /\ UNCHANGED <<storeVars, appVars>>
  /\ clPc[k] = "conn"
  /\ connClosed' = TRUE
  /\ nConnClose' = nConnClose + 1
  /\ closeOnce' = "done"
  /\ clPc' = [clPc EXCEPT ![k] = "ret"]
  /\ UNCHANGED <<nextID, pending, chBuf, closedSig, nSigClose, panicked,
                 eventState, peerState, readerState, callState>>

\* ipc.go:95: Close returns.  The reader goes on to its deferred
\* close of the event channel (ipc.go:106-107, 102).
CloseReturn(k) ==
  /\ UNCHANGED <<storeVars, appVars>>
  /\ clPc[k] = "ret"
  /\ clPc' = [clPc EXCEPT ![k] = "idle"]
  /\ rdPc' = IF k = Reader THEN "closeEvents" ELSE rdPc
  /\ UNCHANGED <<nextID, pending, chBuf, closeState, panicked, eventState,
                 peerState, rdCh, rdId, callState>>

(***************************************************************************)
(* Client.readLoop (ipc.go:101-149).                                       *)
(***************************************************************************)
\* Mutant: the reader hands the reply to the oldest registered channel, as
\* if replies came back in the order of the requests.
LookupPendingOldest(id) ==
  IF pending = {} THEN NoId ELSE CHOOSE i \in pending : \A j \in pending : i <= j

\* ipc.go:125: ch := c.pending[id].  The channel registered for id (channels
\* are named by the id they were made for); NoId when there is none.
LookupPending(id) == IF id \in pending THEN id ELSE NoId

\* A push into a channel that always has room.
PushEventUnbounded(q) == "queue"

\* Mutant: a plain send, c.events <- e, which waits for room.
PushEventBlocking(q) == IF Len(q) < EventsCap THEN "queue" ELSE "block"

\* ipc.go:143-146: select { case c.events <- e: default: }.  The event is
\* queued when the channel has room and dropped otherwise; "block" would be
\* a send that waits for room.
PushEvent(q) == IF Len(q) < EventsCap THEN "queue" ELSE "drop"

\* A reader that leaves the entry in the table.
DeletePendingKeep(p, id) == p

\* A reader that empties the table on any reply.
DeletePendingAll(p, id) == {}

\* delete(c.pending, id) (ipc.go:126).
DeletePending(p, id) == p \ {id}

\* ipc.go:104-147: one record is read and handled.  After c.conn.Close() a
\* line already in the bufio.Reader may still be returned.
ReaderRead ==
  /\ UNCHANGED <<storeVars, appVars>>
  /\ rdPc = "read"
  /\ inbox # <<>>
  /\ LET rec == Head(inbox) IN
     /\ inbox' = Tail(inbox)
     /\ CASE rec.t = "reply" ->
               \* ipc.go:124-127: look up and delete under c.mu
               /\ pending' = DeletePending(pending, rec.id)
               /\ IF LookupPending(rec.id) # NoId
                    THEN /\ rdPc' = "deliver"
                         /\ rdCh' = LookupPending(rec.id)
                         /\ rdId' = rec.id
                    ELSE UNCHANGED <<rdPc, rdCh, rdId>>
               /\ UNCHANGED <<events, panicked>>
          [] rec.t = "event" ->
               /\ PushEvent(events) # "block"
               /\ IF eventsClosed
                    THEN panicked' = TRUE /\ events' = events
                    ELSE /\ events' = IF PushEvent(events) = "queue"
                                        THEN Append(events, rec.name) ELSE events
                         /\ panicked' = panicked
               /\ UNCHANGED <<pending, rdPc, rdCh, rdId>>
          [] OTHER ->
               \* ipc.go:111-113, 117-119: skipped
               UNCHANGED <<pending, rdPc, rdCh, rdId, events, panicked>>
  /\ UNCHANGED <<nextID, chBuf, closeState, eventsClosed, nEventsClose, sawEnd,
                 sent, peerClosed, clPc, callState>>

\* A reader that stops on a failed read without calling Close.
ReaderReadErrNoClose ==
  /\ UNCHANGED <<storeVars, appVars>>
  /\ rdPc = "read"
  /\ \/ inbox = <<>> /\ peerClosed
     \/ connClosed
  /\ rdPc' = "closeEvents"
  /\ inbox' = <<>>
  /\ UNCHANGED <<nextID, pending, chBuf, closeState, panicked, eventState, sent,
                 peerClosed, rdCh, rdId, clPc, callState>>

\* ipc.go:105-107: ReadBytes fails (the peer closed and everything was read,
\* or the connection was closed under the reader): the reader calls Close.
ReaderReadErr ==
  /\ UNCHANGED <<storeVars, appVars>>
  /\ rdPc = "read"
  /\ \/ inbox = <<>> /\ peerClosed
     \/ connClosed
  /\ rdPc' = "closing"
  /\ clPc' = [clPc EXCEPT ![Reader] = "enter"]
  /\ inbox' = <<>>
  /\ UNCHANGED <<nextID, pending, chBuf, closeState, panicked, eventState, sent,
                 peerClosed, rdCh, rdId, callState>>

\* The calls that hold channel ch and have not returned.
Holders(ch) == {c \in Tasks : cId[c] = ch /\ cPc[c] \in {"write", "select", "blocked"}}

\* ipc.go:128-131: ch <- r; close(ch).  The channel has capacity 1 and gets
\* this one send, which therefore never waits: a call parked on the channel
\* is woken with the reply, otherwise the reply is left in the buffer (and is
\* garbage when the call that made the channel has returned).
ReaderDeliver ==
  /\ UNCHANGED <<storeVars, appVars>>
  /\ rdPc = "deliver"
  /\ chBuf[rdCh] = NoReply
  /\ LET w == {c \in Blocked : cId[c] = rdCh} IN
     IF w # {}
       THEN /\ cPc' = [c \in Tasks |-> IF c \in w THEN "ret" ELSE cPc[c]]
            /\ cOut' = [c \in Tasks |-> IF c \in w THEN "reply" ELSE cOut[c]]
            /\ cGot' = [c \in Tasks |-> IF c \in w THEN rdId ELSE cGot[c]]
            /\ chBuf' = chBuf
       ELSE /\ chBuf' = IF Holders(rdCh) # {}
                          THEN [chBuf EXCEPT ![rdCh] = [id |-> rdId]] ELSE chBuf
            /\ UNCHANGED <<cPc, cOut, cGot>>
  /\ rdPc' = "read"
  /\ rdCh' = NoId
  /\ rdId' = NoId
  /\ UNCHANGED <<nextID, pending, closeState, panicked, eventState, peerState,
                 clPc, cId, cSite, cDeadline, cExpired>>

\* Mutant: readLoop returns without closing c.events.
ReaderExitNoClose ==
  /\ UNCHANGED <<storeVars, appVars>>
  /\ rdPc = "closeEvents"
  /\ rdPc' = "done"
  /\ UNCHANGED <<nextID, pending, chBuf, closeState, panicked, eventState,
                 peerState, rdCh, rdId, clPc, callState>>

\* ipc.go:102: the deferred c.eventsOnce.Do(func() { close(c.events) }).
ReaderCloseEvents ==
  /\ UNCHANGED <<storeVars, appVars>>
  /\ rdPc = "closeEvents"
  /\ rdPc' = "done"
  /\ IF eventsClosed
       THEN panicked' = TRUE /\ UNCHANGED <<eventsClosed, nEventsClose>>
       ELSE /\ eventsClosed' = TRUE
            /\ nEventsClose' = nEventsClose + 1
            /\ panicked' = panicked
  /\ UNCHANGED <<nextID, pending, chBuf, closeState, events, sawEnd, peerState,
                 rdCh, rdId, clPc, callState>>

(***************************************************************************)
(* The consumer of Client.Events() (app.go:299, for ev := range ...).      *)
(***************************************************************************)
ConsumeEvent ==
  /\ UNCHANGED <<storeVars, appVars>>
  /\ events # <<>>
  /\ events' = Tail(events)
  /\ UNCHANGED <<nextID, pending, chBuf, closeState, panicked, eventsClosed,
                 nEventsClose, sawEnd, peerState, readerState, clPc,
                 callState>>

ConsumeEnd ==
  /\ UNCHANGED <<storeVars, appVars>>
  /\ events = <<>>
  /\ eventsClosed
  /\ ~sawEnd
  /\ sawEnd' = TRUE
  /\ UNCHANGED <<nextID, pending, chBuf, closeState, panicked, events,
                 eventsClosed, nEventsClose, peerState, readerState, clPc, callState>>

(***************************************************************************)
(* The subprocess (mpv) at the other end of the socket.                    *)
(***************************************************************************)
PeerCanWrite ==
  /\ ~peerClosed
  /\ ~connClosed
  /\ Len(inbox) < MaxInbox

PeerWrite(rec) ==
  /\ UNCHANGED <<storeVars, appVars>>
  /\ PeerCanWrite
  /\ inbox' = Append(inbox, rec)
  /\ UNCHANGED <<nextID, pending, chBuf, closeState, panicked, eventState, sent,
                 peerClosed, readerState, clPc, callState>>

\* A reply to a request the subprocess received (possibly a second one), or
\* one with an id the client never issued.
PeerReply == \E i \in sent \cup {UnknownId} : PeerWrite(ReplyRec(i))
PeerEvent == \E n \in IPCEventNames : PeerWrite(EventRec(n))
PeerJunk == PeerWrite(JunkRec)

PeerClose ==
  /\ UNCHANGED <<storeVars, appVars>>
  /\ ~peerClosed
  /\ peerClosed' = TRUE
  /\ UNCHANGED <<nextID, pending, chBuf, closeState, panicked, eventState, inbox,
                 sent, readerState, clPc, callState>>

(***************************************************************************)
(* pp.TimestampStore (timestamps.go): a map from media path to offset in   *)
(* seconds, kept in a JSON file.                                           *)
(***************************************************************************)
\* Media paths.  A Go string is a sequence of bytes: KeyRaw is a file name
\* holding the byte 0xFF, which is not valid UTF-8; KeyRepl is the name with
\* U+FFFD (bytes EF BF BD) in its place.
KeyA == "a.mp4"
KeyRepl == "x<U+FFFD>.mp4"
KeyRaw == "x<0xFF>.mp4"
Keys == {KeyA, KeyRepl, KeyRaw}

\* The keys in byte order, the order in which encoding/json writes a map.
KeyOrder == <<KeyA, KeyRepl, KeyRaw>>

\* Offsets in seconds.
Secs == 1..MaxSec

Mappings == UNION {[D -> Secs] : D \in SUBSET Keys}

EmptyMap == [k \in {} |-> 0]

\* t.m[path] = sec (timestamps.go:66).
SetMap(m, k, v) == [x \in DOMAIN m \cup {k} |-> IF x = k THEN v ELSE m[x]]

\* A Set that keeps the entry a path already has.
SetMapKeepOld(m, k, v) == [x \in DOMAIN m \cup {k} |-> IF x \in DOMAIN m THEN m[x] ELSE v]

\* TimestampStore.Get (timestamps.go:51-57): v, ok := t.m[path].
Get(m, k) == IF k \in DOMAIN m THEN [v |-> m[k], ok |-> TRUE] ELSE [v |-> 0, ok |-> FALSE]

\* encoding/json writes a string coerced to valid UTF-8: each invalid byte
\* becomes U+FFFD.
CoerceUTF8(k) == IF k = KeyRaw THEN KeyRepl ELSE k

\* The lines of an indented JSON object.
Brace(t) == [t |-> t, k |-> "", v |-> 0, comma |-> FALSE]
Entry(k, v, comma) == [t |-> "kv", k |-> k, v |-> v, comma |-> comma]

SortedKeys(m) == SelectSeq(KeyOrder, LAMBDA k : k \in DOMAIN m)

\* json.MarshalIndent(t.m, "", "  ") (timestamps.go:40): "{}" for an empty
\* map, else "{", one line per key in byte order of the keys, each but the
\* last with a comma, and "}".
MarshalIndent(m) ==
  LET ks == SortedKeys(m)
      n == Len(ks)
  IN IF n = 0
       THEN << Brace("{}") >>
       ELSE << Brace("{") >>
              \o [i \in 1..n |-> Entry(CoerceUTF8(ks[i]), m[ks[i]], i < n)]
              \o << Brace("}") >>

\* The syntax check json.Unmarshal makes before it decodes anything.
ValidJSON(b) ==
  \/ b = << Brace("{}") >>
  \/ /\ Len(b) >= 3
     /\ b[1] = Brace("{")
     /\ b[Len(b)] = Brace("}")
     /\ \A i \in 2..(Len(b) - 1) : b[i].t = "kv" /\ b[i].comma = (i < Len(b) - 1)

\* The object a valid text denotes: of two entries with one key the later
\* one stays.
Decode(b) ==
  LET idx == {i \in 1..Len(b) : b[i].t = "kv"}
      last(k) == CHOOSE i \in idx : b[i].k = k /\ \A j \in idx : b[j].k = k => j <= i
  IN [k \in {b[i].k : i \in idx} |-> b[last(k)].v]

\* json.Unmarshal(b, &t.m) (timestamps.go:29): on a syntax error the map is
\* left alone, else the entries of the text are stored into the map.
Unmarshal(b, m) ==
  IF ~ValidJSON(b)
    THEN m
    ELSE LET d == Decode(b)
         IN [k \in DOMAIN m \cup DOMAIN d |-> IF k \in DOMAIN d THEN d[k] ELSE m[k]]

(***************************************************************************)
(* The file system under the store: two names in one directory, inodes     *)
(* that live while a name or an open descriptor refers to them.            *)
(***************************************************************************)
TargetPath == "ts.json"
TmpPath == "ts.json.tmp"      \* tmp := t.path + ".tmp" (timestamps.go:39)
FileNames == {TargetPath, TmpPath}
NoInode == 0
Inodes == 1..MaxInodes

Referenced(names, fds) == {names[n] : n \in FileNames} \cup {fds[c] : c \in Tasks}

FreeInodes == Inodes \ Referenced(fsName, svFd)

\* The kernel frees an inode nothing refers to.
Reclaim(data, names, fds) ==
  [i \in Inodes |-> IF i \in Referenced(names, fds) THEN data[i] ELSE <<>>]

\* os.ReadFile(t.path) (timestamps.go:25).
ReadFile(names, data, denied, name) ==
  IF names[name] = NoInode \/ names[name] \in denied
    THEN [err |-> TRUE, b |-> <<>>]
    ELSE [err |-> FALSE, b |-> data[names[name]]]

\* A write of d at offset 0 of a file holding f.
WriteAt0(f, d) == d \o SubSeq(f, Len(d) + 1, Len(f))

\* A Load that reports the read error.
LoadStrict(path, m, names, data, denied) ==
  IF path = ""
    THEN [m |-> m, ret |-> "ok"]
    ELSE LET r == ReadFile(names, data, denied, path)
         IN IF r.err THEN [m |-> m, ret |-> "err"]
                     ELSE [m |-> Unmarshal(r.b, m), ret |-> "ok"]

\* TimestampStore.Load (timestamps.go:21-34) on a store with map m.
Load(path, m, names, data, denied) ==
  IF path = ""
    THEN [m |-> m, ret |-> "ok"]
    ELSE LET r == ReadFile(names, data, denied, path)
         IN IF r.err THEN [m |-> m, ret |-> "ok"]
                     ELSE [m |-> Unmarshal(r.b, m), ret |-> "ok"]

(***************************************************************************)
(* The store after main built it (part_003:64-65): NewTimestampStore(path) *)
(* then Load().  The backing file is absent, or holds what an earlier run  *)
(* saved, or may not be read.                                              *)
(***************************************************************************)
InitFile(m0, present, denied) ==
  /\ fsName = [n \in FileNames |-> IF n = TargetPath /\ present THEN 1 ELSE NoInode]
  /\ fsData = [i \in Inodes |-> IF i = 1 /\ present THEN MarshalIndent(m0) ELSE <<>>]
  /\ fsDenied = IF present /\ denied THEN {1} ELSE {}

InitTasks ==
  /\ svPc = [c \in Tasks |-> "idle"]
  /\ svMap = [c \in Tasks |-> EmptyMap]
  /\ svFd = [c \in Tasks |-> NoInode]
  /\ svRet = [c \in Tasks |-> "none"]
  /\ crashed = FALSE
  /\ ldM = EmptyMap
  /\ ldRet = "none"

\* An in-memory store nobody uses.
InitNoStore ==
  /\ tsPath = ""
  /\ InitFile(EmptyMap, FALSE, FALSE)
  /\ tsM = EmptyMap
  /\ InitTasks

InitStore(paths, files) ==
  /\ tsPath \in paths
  /\ \/ InitFile(EmptyMap, FALSE, FALSE)
     \/ /\ tsPath # ""
        /\ \E m0 \in files, denied \in BOOLEAN : InitFile(m0, TRUE, denied)
  /\ tsM = Load(tsPath, EmptyMap, fsName, fsData, fsDenied).m
  /\ InitTasks

\* A session controller that has not been started.
InitNoApp ==
  /\ Index = 0
  /\ pauseAfterLoad = FALSE
  /\ Continuous = FALSE
  /\ AutoPlay = FALSE
  /\ ResumeState = FALSE
  /\ mpvPos = 0
  /\ runState = "running"
  /\ fgPc = "idle"
  /\ fgArg = 0
  /\ fgCmds = <<>>
  /\ fgRet = "none"
  /\ lastSample = [path |-> "", pos |-> 0]
  /\ evPc = "idle"
  /\ evCmds = <<>>
  /\ smPc = "done"
  /\ evArg = 0
  /\ savedAgo = 0

InitIPC == InitClient /\ InitNoStore /\ InitNoApp

(***************************************************************************)
(* TimestampStore.Set (timestamps.go:59-67).                               *)
(***************************************************************************)
Set(c, k, v) ==
  /\ ~crashed
  /\ svPc[c] = "idle"
  /\ tsM' = SetMap(tsM, k, v)
  /\ UNCHANGED <<tsPath, fsName, fsData, fsDenied, svPc, svMap, svFd, svRet, crashed,
                 ldM, ldRet>>
  /\ UNCHANGED <<ipcVars, appVars>>

(***************************************************************************)
(* TimestampStore.Save (timestamps.go:36-49).  Its file system calls are   *)
(* steps of their own: other tasks run between them.                       *)
(***************************************************************************)
\* timestamps.go:37-43: the path check and MarshalIndent.
SaveCall(c) ==
  /\ ~crashed
  /\ svPc[c] = "idle"
  /\ IF tsPath = ""
       THEN /\ svRet' = [svRet EXCEPT ![c] = "ok"]
            /\ UNCHANGED <<svPc, svMap>>
       ELSE /\ svPc' = [svPc EXCEPT ![c] = "open"]
            /\ svMap' = [svMap EXCEPT ![c] = tsM]
            /\ svRet' = [svRet EXCEPT ![c] = "none"]
  /\ UNCHANGED <<tsPath, tsM, fsName, fsData, fsDenied, svFd, crashed, ldM, ldRet>>
  /\ UNCHANGED <<ipcVars, appVars>>

\* os.WriteFile (timestamps.go:44) opens tmp with O_WRONLY|O_CREATE|O_TRUNC:
\* a file of that name is emptied, else one is made.
SaveOpen(c) ==
  /\ ~crashed
  /\ svPc[c] = "open"
  /\ IF fsName[TmpPath] # NoInode
       THEN /\ svFd' = [svFd EXCEPT ![c] = fsName[TmpPath]]
            /\ fsData' = [fsData EXCEPT ![fsName[TmpPath]] = <<>>]
            /\ fsName' = fsName
       ELSE /\ FreeInodes # {}
            /\ LET i == CHOOSE x \in FreeInodes : \A y \in FreeInodes : x <= y
               IN /\ svFd' = [svFd EXCEPT ![c] = i]
                  /\ fsName' = [fsName EXCEPT ![TmpPath] = i]
                  /\ fsData' = [fsData EXCEPT ![i] = <<>>]
  /\ svPc' = [svPc EXCEPT ![c] = "write"]
  /\ UNCHANGED <<tsPath, tsM, fsDenied, svMap, svRet, crashed, ldM, ldRet>>
  /\ UNCHANGED <<ipcVars, appVars>>

\* os.WriteFile writes the bytes through its descriptor and closes it.
SaveWrite(c) ==
  /\ ~crashed
  /\ svPc[c] = "write"
  /\ LET fds == [svFd EXCEPT ![c] = NoInode]
         data == [fsData EXCEPT ![svFd[c]] = WriteAt0(@, MarshalIndent(svMap[c]))]
     IN /\ svFd' = fds
        /\ fsData' = Reclaim(data, fsName, fds)
  /\ svPc' = [svPc EXCEPT ![c] = "rename"]
  /\ UNCHANGED <<tsPath, tsM, fsName, fsDenied, svMap, svRet, crashed, ldM, ldRet>>
  /\ UNCHANGED <<ipcVars, appVars>>

\* The write fails part way (a full disk): Save returns the error
\* (timestamps.go:44-46) and leaves tmp as it is.
SaveWriteErr(c) ==
  /\ ~crashed
  /\ svPc[c] = "write"
  /\ \E n \in 0..(Len(MarshalIndent(svMap[c])) - 1) :
       LET fds == [svFd EXCEPT ![c] = NoInode]
           data == [fsData EXCEPT
                      ![svFd[c]] = WriteAt0(@, SubSeq(MarshalIndent(svMap[c]), 1, n))]
       IN /\ svFd' = fds
          /\ fsData' = Reclaim(data, fsName, fds)
  /\ svPc' = [svPc EXCEPT ![c] = "idle"]
  /\ svRet' = [svRet EXCEPT ![c] = "err"]
  /\ svMap' = [svMap EXCEPT ![c] = EmptyMap]
  /\ UNCHANGED <<tsPath, tsM, fsName, fsDenied, crashed, ldM, ldRet>>
  /\ UNCHANGED <<ipcVars, appVars>>

\* os.Rename(tmp, t.path) (timestamps.go:48): the target name is given the
\* file tmp names, in one step; with no tmp it fails.
SaveRename(c) ==
  /\ ~crashed
  /\ svPc[c] = "rename"
  /\ IF fsName[TmpPath] = NoInode
       THEN /\ svRet' = [svRet EXCEPT ![c] = "err"]
            /\ UNCHANGED <<fsName, fsData, fsDenied>>
       ELSE LET names == [fsName EXCEPT ![TargetPath] = fsName[TmpPath],
                                        ![TmpPath] = NoInode]
            IN /\ fsName' = names
               /\ fsData' = Reclaim(fsData, names, svFd)
               /\ fsDenied' = fsDenied \cap Referenced(names, svFd)
               /\ svRet' = [svRet EXCEPT ![c] = "ok"]
  /\ svPc' = [svPc EXCEPT ![c] = "idle"]
  /\ svMap' = [svMap EXCEPT ![c] = EmptyMap]
  /\ UNCHANGED <<tsPath, tsM, svFd, crashed, ldM, ldRet>>
  /\ UNCHANGED <<ipcVars, appVars>>

\* The process is killed while a Save is under way: its descriptors are
\* closed, the directory stays as it is.
Crash ==
  /\ ~crashed
  /\ \E c \in Tasks : svPc[c] # "idle"
  /\ crashed' = TRUE
  /\ svFd' = [c \in Tasks |-> NoInode]
  /\ fsData' = Reclaim(fsData, fsName, [c \in Tasks |-> NoInode])
  /\ UNCHANGED <<tsPath, tsM, fsName, fsDenied, svPc, svMap, svRet, ldM, ldRet>>
  /\ UNCHANGED <<ipcVars, appVars>>

\* The fresh store is let go.
FreshDrop ==
  /\ ldRet # "none"
  /\ ldM' = EmptyMap
  /\ ldRet' = "none"
  /\ UNCHANGED <<tsPath, tsM, fsName, fsData, fsDenied, svPc, svMap, svFd, svRet, crashed>>
  /\ UNCHANGED <<ipcVars, appVars>>

\* A fresh store on the same path: NewTimestampStore(path) then Load().
FreshLoad ==
  /\ LET r == Load(tsPath, EmptyMap, fsName, fsData, fsDenied)
     IN ldM' = r.m /\ ldRet' = r.ret
  /\ UNCHANGED <<tsPath, tsM, fsName, fsData, fsDenied, svPc, svMap, svFd, svRet, crashed>>
  /\ UNCHANGED <<ipcVars, appVars>>

(***************************************************************************)
(* SpecIPC: the request/reply side of the transport, driven by two         *)
(* goroutines that call Command with and without a deadline, a goroutine   *)
(* that calls Close any number of times, and a subprocess that replies,    *)
(* repeats replies, replies to ids never issued, and hangs up.  The        *)
(* subprocess writes a record when the socket is empty: the reader takes   *)
(* records one by one, so records queued behind each other add nothing     *)
(* here.                                                                   *)
(***************************************************************************)
IPCCallers == {"fg", "ev"}

CallStep ==
  \E c \in IPCCallers :
    \/ \E d \in BOOLEAN : Register(c, "api", d)
    \/ Write(c)
    \/ Select(c)
    \/ Return(c)
    \/ Expire(c)

CloseStep ==
  \E k \in Closers :
    \/ CloseCall(k)
    \/ CloseEnter(k)
    \/ CloseSignal(k)
    \/ ClosePending(k)
    \/ CloseConn(k)
    \/ CloseReturn(k)

ReaderStep == ReaderRead \/ ReaderReadErr \/ ReaderDeliver \/ ReaderCloseEvents

IPCPeerReply == inbox = <<>> /\ PeerReply

NextIPC == CallStep \/ CloseStep \/ ReaderStep \/ IPCPeerReply \/ PeerClose

SpecIPC == InitIPC /\ [][NextIPC]_vars

(***************************************************************************)
(* SpecFlood: the subprocess floods the client with events while a call    *)
(* waits for its reply.  A consumer may drain Events() or not; the         *)
(* transport stays open.                                                   *)
(***************************************************************************)
FloodCallStep ==
  \/ Register("fg", "api", FALSE)
  \/ Write("fg")
  \/ Select("fg")
  \/ Return("fg")

FloodPeerReply == \E i \in sent : PeerWrite(ReplyRec(i))

NextFlood ==
  FloodCallStep \/ ReaderRead \/ ReaderDeliver \/ ConsumeEvent \/ FloodPeerReply
    \/ PeerEvent \/ PeerJunk

SpecFlood == InitIPC /\ [][NextFlood]_vars

(***************************************************************************)
(* SpecRecords: whatever the subprocess may write: replies to requests it  *)
(* received, in any number, replies to requests nobody made, events and    *)
(* lines that are no record at all.                                        *)
(***************************************************************************)
RecordsCallStep ==
  \/ \E d \in BOOLEAN : Register("fg", "api", d)
  \/ Write("fg")
  \/ Select("fg")
  \/ Return("fg")
  \/ Expire("fg")

NextRecords ==
  RecordsCallStep \/ ReaderRead \/ ReaderDeliver \/ ConsumeEvent
    \/ PeerReply \/ PeerEvent \/ PeerJunk

SpecRecords == InitIPC /\ [][NextRecords]_vars

(***************************************************************************)
(* SpecDrain: the life of the event channel: events arrive, a consumer     *)
(* drains, the subprocess hangs up or main calls Close.                    *)
(***************************************************************************)
DrainReaderStep == ReaderRead \/ ReaderReadErr \/ ReaderCloseEvents

ConsumerStep == ConsumeEvent \/ ConsumeEnd

NextDrain == CloseStep \/ DrainReaderStep \/ ConsumerStep \/ PeerEvent \/ PeerClose

SpecDrain == InitIPC /\ [][NextDrain]_vars

(***************************************************************************)
(* SpecWait: calls waiting while the transport is closed.  One goroutine   *)
(* calls with a deadline and one without, the subprocess answers requests  *)
(* one at a time, main calls Close any number of times.                    *)
(***************************************************************************)
WaitCallStep ==
  \/ Register("fg", "api", TRUE)
  \/ Register("ev", "api", FALSE)
  \/ \E c \in IPCCallers : Write(c) \/ Select(c) \/ Return(c) \/ Expire(c)

WaitPeerReply == inbox = <<>> /\ \E i \in sent : PeerWrite(ReplyRec(i))

NextWait == WaitCallStep \/ CloseStep \/ ReaderStep \/ WaitPeerReply

SpecWait == InitIPC /\ [][NextWait]_vars

(***************************************************************************)
(* SpecRT: the round trips of the session controller (pp.App).  Each call  *)
(* site of app.go passes a context: withTimeout(d) carries a deadline,     *)
(* context.Background() carries none.  Next, Prev, Load and the seek of    *)
(* RestorePosition use the context they are given, and every caller in     *)
(* app.go gives them context.Background().  The subprocess answers or does *)
(* not; the transport stays open.                                          *)
(***************************************************************************)
DeadlineSites ==
  { "osd",                     \* app.go:178-179   withTimeout(200ms)
    "bumpSpeed.get",           \* app.go:188       withTimeout(250ms)
    "RestorePosition.get",     \* app.go:269       withTimeout(300ms)
    "persistPosition",         \* app.go:286,290   withTimeout(300ms)
    "syncIndex",               \* app.go:457       withTimeout(250ms)
    "sampleAndMaybeSave" }     \* app.go:475,479   withTimeout(200ms)

BackgroundSites ==
  { "Run.observe_property",    \* app.go:50
    "Run.key",                 \* app.go:76-91
    "handleRune",              \* app.go:109-147
    "bumpSpeed.set",           \* app.go:199
    "Next",                    \* app.go:208,217 from 114, 363
    "Prev",                    \* app.go:231,240 from 112, 365
    "Load",                    \* app.go:255 from 377, 384
    "RestorePosition.seek",    \* app.go:277 from 322
    "eventLoop.pause",         \* app.go:324,327
    "commandMode" }            \* app.go:360-425

SiteDeadline(site) == site \in DeadlineSites

\* Run, handleRune, commandMode and what they call run on the foreground
\* goroutine.
FgSites ==
  { "Run.observe_property", "Run.key", "handleRune", "osd", "bumpSpeed.get",
    "bumpSpeed.set", "Next", "Prev", "Load", "persistPosition", "syncIndex",
    "commandMode" }

\* eventLoop: end-file persists, playlist-pos syncs, file-loaded syncs,
\* restores the position and sets pause.
EvSites ==
  { "persistPosition", "syncIndex", "RestorePosition.get",
    "RestorePosition.seek", "eventLoop.pause" }

\* periodicSaveLoop calls sampleAndMaybeSave.
SmSites == { "sampleAndMaybeSave" }

TaskSites(c) == CASE c = "fg" -> FgSites [] c = "ev" -> EvSites [] OTHER -> SmSites

RTCallStep ==
  \E c \in Tasks :
    \/ \E site \in TaskSites(c) : Register(c, site, SiteDeadline(site))
    \/ Write(c)
    \/ Select(c)
    \/ Return(c)
    \/ Expire(c)

RTPeerReply == inbox = <<>> /\ \E i \in sent : PeerWrite(ReplyRec(i))

NextRT == RTCallStep \/ ReaderRead \/ ReaderDeliver \/ RTPeerReply

SpecRT == InitIPC /\ [][NextRT]_vars

(***************************************************************************)
(* SpecStore: one task uses the store: it sets offsets, saves, and builds a *)
(* fresh store that loads what was saved.  The store is in memory or       *)
(* backed by a file that is absent, readable or unreadable when the        *)
(* program starts.                                                         *)
(***************************************************************************)
StoreTask == "fg"

SaveStep(c) ==
  SaveCall(c) \/ SaveOpen(c) \/ SaveWrite(c) \/ SaveWriteErr(c) \/ SaveRename(c)

SetStep(c) == \E k \in Keys, v \in Secs : Set(c, k, v)

\* The task looks at a fresh store and lets it go before it does anything else.
StoreStep == ldRet = "none" /\ (SetStep(StoreTask) \/ SaveStep(StoreTask))

NextStore == StoreStep \/ FreshLoad \/ FreshDrop

\* What an earlier run left in the file.
StoreFiles == {EmptyMap, [k \in {KeyA} |-> 1]}

InitStoreAny == InitClient /\ InitStore({"", TargetPath}, StoreFiles) /\ InitNoApp

SpecStore == InitStoreAny /\ [][NextStore]_vars

(***************************************************************************)
(* SpecSave: the foreground, event and sampler tasks use one file-backed   *)
(* store, as persistPosition (app.go:294-295), flushLastSample             *)
(* (app.go:511-512) and sampleAndMaybeSave (app.go:494-496) do, and the    *)
(* process may be killed.                                                  *)
(***************************************************************************)
SaveKeys == {KeyA}

SaveFiles == {EmptyMap}

SaveSecs == {1}

SaveSetStep == \E c \in Tasks, k \in SaveKeys, v \in SaveSecs : Set(c, k, v)

NextSave == SaveSetStep \/ (\E c \in Tasks : SaveStep(c)) \/ Crash

InitSave == InitClient /\ InitStore({TargetPath}, SaveFiles) /\ InitNoApp

SpecSave == InitSave /\ [][NextSave]_vars

(***************************************************************************)
(* pp.App (app.go): the session controller.  The foreground task runs      *)
(* App.Run and the handler of one key or command line at a time; the event *)
(* task runs App.eventLoop and the handler of one event at a time.  Both   *)
(* read and write a.Index and a.pauseAfterLoad with no lock, so a handler  *)
(* is cut into steps at its round trips.                                   *)
(***************************************************************************)
\* The files of a directory, in the order BuildPlaylist sorts them.
AllFiles == << "v0.mp4", "v1.mp4", "v2.mp4", "v3.mp4", "v4.mp4", "v5.mp4" >>

\* a.Playlist: Go indexes it from 0.
Playlist == SubSeq(AllFiles, 1, PlLen)
PlaylistAt(i) == Playlist[i + 1]
InRange(i) == i >= 0 /\ i < PlLen

\* The subprocess keeps a playlist of its own.  It starts as a.Playlist
\* (WriteTempPlaylist), and the subprocess may add to it (a file dropped on
\* its window): here it may hold one entry more.
MpvLen == PlLen + 1
MpvPositions == (0 - 1)..(MpvLen - 1)
MpvPath(pos) == AllFiles[pos + 1]

\* Playback offsets in tenths of a second: 0.3 s and 5.0 s.
Offsets == {3, 50}

\* sec <= 0.5 (app.go:274), in tenths of a second.
ResumeThreshold == 5

\* time.Since(a.lastSavedAt) >= 3*time.Second (app.go:487), in seconds.
SaveEvery == 3

\* A command written to the subprocess.
Cmd(name, arg) == [name |-> name, arg |-> arg]
PlayIndex(i) == Cmd("playlist-play-index", i)
PlaylistNext == Cmd("playlist-next weak", 0)
PlaylistPrev == Cmd("playlist-prev weak", 0)
SeekAbsolute(sec) == Cmd("seek absolute", sec)
SetPause(b) == Cmd(IF b THEN "set_property pause true" ELSE "set_property pause false", 0)
ShowText == Cmd("show-text", 0)
QuitCmd == Cmd("quit", 0)
KeyCmd == Cmd("seek/cycle/set_property", 0)
GetTimePos == Cmd("get_property time-pos", 0)
GetPath == Cmd("get_property path", 0)
GetPlaylistPos == Cmd("get_property playlist-pos", 0)

Issued(cmds, name) == \E i \in 1..Len(cmds) : cmds[i].name = name

\* How a round trip can end (CommandData, ipc.go:173-187): with the reply, or
\* with an error (the write failed, the deadline passed, the transport
\* closed, the subprocess answered with an error).
Outcomes == IF closedSig THEN {"err"} ELSE {"ok", "err"}

\* What a navigation command does in the subprocess.
Applied(cmd, pos) ==
  CASE cmd.name = "playlist-play-index" ->
         IF cmd.arg >= 0 /\ cmd.arg < MpvLen THEN cmd.arg ELSE pos
    [] cmd.name = "playlist-next weak" -> IF pos < MpvLen - 1 THEN pos + 1 ELSE pos
    [] cmd.name = "playlist-prev weak" -> IF pos > 0 THEN pos - 1 ELSE pos
    [] OTHER -> pos

\* The subprocess's position after a round trip with command cmd: a command
\* that was answered took effect; one that ended with an error took effect
\* or not (a late reply), and none does once the transport is closed.
PosAfter(cmd, outcome) ==
  IF outcome = "ok" THEN {Applied(cmd, mpvPos)}
  ELSE IF closedSig THEN {mpvPos}
  ELSE {mpvPos, Applied(cmd, mpvPos)}

\* The part of the state a handler of the session controller leaves alone:
\* the client's internals and the backing file of the store (the session is
\* modelled with the in-memory store, NewTimestampStore(""), part_003:68).
storeRest == <<tsPath, fsName, fsData, fsDenied, svPc, svMap, svFd, svRet, crashed,
               ldM, ldRet>>
config == <<Continuous, AutoPlay, ResumeState>>
handlerRest == <<ipcVars, storeRest, config, smPc, savedAgo>>
outside == <<handlerRest, evArg>>

\* App.persistPosition (app.go:282-296): what it can issue and leave in the
\* store.  time-pos has no value while the subprocess plays nothing.  With
\* no path from the subprocess the key is a.Playlist[a.Index], which panics
\* when a.Index is out of range.
PersistWith(pos) ==
  { [cmds |-> <<GetTimePos, GetPath>>, m |-> SetMap(tsM, MpvPath(mpvPos), pos),
     panic |-> FALSE],
    IF InRange(Index)
      THEN [cmds |-> <<GetTimePos, GetPath>>, m |-> SetMap(tsM, PlaylistAt(Index), pos),
            panic |-> FALSE]
      ELSE [cmds |-> <<GetTimePos, GetPath>>, m |-> tsM, panic |-> TRUE] }

\* A persistPosition that does not look at a.ResumeState.
persistPositionAlways ==
  { [cmds |-> <<GetTimePos>>, m |-> tsM, panic |-> FALSE] }
    \cup (IF "ok" \in Outcomes /\ mpvPos >= 0
            THEN UNION { PersistWith(pos) : pos \in Offsets }
            ELSE {})

persistPosition ==
  IF ~ResumeState
    THEN { [cmds |-> <<>>, m |-> tsM, panic |-> FALSE] }
    ELSE { [cmds |-> <<GetTimePos>>, m |-> tsM, panic |-> FALSE] }
           \cup (IF "ok" \in Outcomes /\ mpvPos >= 0
                   THEN UNION { PersistWith(pos) : pos \in Offsets }
                   ELSE {})

\* App.syncIndex (app.go:456-461): the values a.Index can have after it.
syncIndex ==
  { Index } \cup (IF "ok" \in Outcomes /\ mpvPos >= 0 THEN { mpvPos } ELSE {})

\* A resume test that takes every stored offset above zero.
ResumesAny(sec) == sec > 0

\* ok && sec > 0.5 (app.go:274).
Resumes(sec) == sec > ResumeThreshold

\* The commands RestorePosition issues once it has the path.
RestoreAt(path) ==
  LET g == Get(tsM, path)
  IN IF g.ok /\ Resumes(g.v)
       THEN [cmds |-> <<GetPath, SeekAbsolute(g.v), ShowText>>, panic |-> FALSE]
       ELSE [cmds |-> <<GetPath>>, panic |-> FALSE]

\* App.RestorePosition (app.go:265-280).
RestorePosition ==
  IF ~ResumeState
    THEN { [cmds |-> <<>>, panic |-> FALSE] }
    ELSE (IF "ok" \in Outcomes /\ mpvPos >= 0 THEN { RestoreAt(MpvPath(mpvPos)) } ELSE {})
           \cup { IF InRange(Index) THEN RestoreAt(PlaylistAt(Index))
                                    ELSE [cmds |-> <<GetPath>>, panic |-> TRUE] }

(***************************************************************************)
(* The foreground task: App.Run (app.go:45-103), handleRune (105-153) and  *)
(* commandMode (335-432).                                                  *)
(***************************************************************************)
Alive == runState = "running"

evSide == <<evPc, evCmds, lastSample>>

\* A process that panicked is gone.
Panics ==
  /\ runState' = "panic"
  /\ UNCHANGED <<Index, pauseAfterLoad, mpvPos, tsM, fgPc, fgArg, fgCmds, fgRet, evPc,
                 evCmds, lastSample>>

\* 'k', 'r', Enter, ":n" call Next (dir = 1); 'j', 'e', ":p" call Prev
\* (dir = -1) (app.go:111-114, 362-365).
NextPrevKey(dir) ==
  /\ Alive /\ fgPc = "idle"
  /\ fgPc' = "nav.persist"
  /\ fgArg' = dir
  /\ fgCmds' = <<>>
  /\ fgRet' = "none"
  /\ UNCHANGED <<Index, pauseAfterLoad, mpvPos, runState, tsM, evSide, outside>>

\* _ = a.persistPosition() (app.go:205, 227).
NavPersist ==
  /\ Alive /\ fgPc = "nav.persist"
  /\ \E r \in persistPosition :
       IF r.panic THEN Panics
       ELSE /\ tsM' = r.m
            /\ fgCmds' = fgCmds \o r.cmds
            /\ fgPc' = "nav.sync"
            /\ UNCHANGED <<Index, pauseAfterLoad, mpvPos, runState, fgArg, fgRet, evSide>>
  /\ UNCHANGED outside

\* a.syncIndex() (app.go:206, 228).
NavSync ==
  /\ Alive /\ fgPc = "nav.sync"
  /\ \E i \in syncIndex : Index' = i
  /\ fgCmds' = Append(fgCmds, GetPlaylistPos)
  /\ fgPc' = "nav.branch"
  /\ UNCHANGED <<pauseAfterLoad, mpvPos, runState, tsM, fgArg, fgRet, evSide, outside>>

\* len(a.Playlist) > 0 && a.Index >= len(a.Playlist)-1 (app.go:207), and
\* a.Index <= 0 for Prev (app.go:229).
AtEnd(dir, idx) == PlLen > 0 /\ (IF dir = 1 THEN idx >= PlLen - 1 ELSE idx <= 0)

\* A wraparound that stays where it is.
WrapTargetSame(dir) == IF dir = 1 THEN PlLen - 1 ELSE 0

\* The index the wraparound jumps to (app.go:208, 230-231).
WrapTarget(dir) == IF dir = 1 THEN 0 ELSE PlLen - 1

\* The command Next or Prev issues (app.go:207-208, 217, 229-231, 240).
NavCommand(dir, idx) ==
  IF AtEnd(dir, idx) THEN PlayIndex(WrapTarget(dir))
  ELSE IF dir = 1 THEN PlaylistNext ELSE PlaylistPrev

NavBranch ==
  /\ Alive /\ fgPc = "nav.branch"
  /\ LET cmd == NavCommand(fgArg, Index)
     IN /\ \E o \in Outcomes : mpvPos' \in PosAfter(cmd, o)
        /\ fgCmds' = Append(fgCmds, cmd)
  /\ fgPc' = IF AtEnd(fgArg, Index) THEN "nav.wrapped" ELSE "nav.resync"
  /\ UNCHANGED <<Index, pauseAfterLoad, runState, tsM, fgArg, fgRet, evSide, outside>>

\* a.Index = 0, a.Index = last, then the osd (app.go:209-210, 232-233).
NavWrapped ==
  /\ Alive /\ fgPc = "nav.wrapped"
  /\ Index' = WrapTarget(fgArg)
  /\ fgCmds' = Append(fgCmds, ShowText)
  /\ fgPc' = "nav.finish"
  /\ UNCHANGED <<pauseAfterLoad, mpvPos, runState, tsM, fgArg, fgRet, evSide, outside>>

\* a.syncIndex(), then the osd (app.go:218-219, 241-242).
NavResync ==
  /\ Alive /\ fgPc = "nav.resync"
  /\ \E i \in syncIndex : Index' = i
  /\ fgCmds' = fgCmds \o <<GetPlaylistPos, ShowText>>
  /\ fgPc' = "nav.finish"
  /\ UNCHANGED <<pauseAfterLoad, mpvPos, runState, tsM, fgArg, fgRet, evSide, outside>>

\* if !a.Continuous { a.pauseAfterLoad = false }; return nil
\* (app.go:211-214, 220-223, 234-237, 243-246).
NavFinish ==
  /\ Alive /\ fgPc = "nav.finish"
  /\ pauseAfterLoad' = IF ~Continuous THEN FALSE ELSE pauseAfterLoad
  /\ fgRet' = "nil"
  /\ fgPc' = "ret"
  /\ UNCHANGED <<Index, mpvPos, runState, tsM, fgArg, fgCmds, evSide, outside>>

\* ":open N" and ":open +N" / "-N" reach a.Load with any integer
\* (app.go:366-385); the values are one below to one above the playlist.
OpenArgs == (0 - 1)..PlLen

OpenLine(i) ==
  /\ Alive /\ fgPc = "idle"
  /\ fgPc' = "load.check"
  /\ fgArg' = i
  /\ fgCmds' = <<>>
  /\ fgRet' = "none"
  /\ UNCHANGED <<Index, pauseAfterLoad, mpvPos, runState, tsM, evSide, outside>>

\* A bounds check that forgets the upper end.
LoadRejectsNegative(i) == i < 0

\* index < 0 || index >= len(a.Playlist) (app.go:250).
LoadRejects(i) == i < 0 \/ i >= PlLen

\* Load's bounds check and a.Index = index (app.go:250-253).
LoadCheck ==
  /\ Alive /\ fgPc = "load.check"
  /\ IF LoadRejects(fgArg)
       THEN /\ fgRet' = "index out of range"
            /\ fgPc' = "ret"
            /\ UNCHANGED Index
       ELSE /\ Index' = fgArg
            /\ fgPc' = "load.persist"
            /\ UNCHANGED fgRet
  /\ UNCHANGED <<pauseAfterLoad, mpvPos, runState, tsM, fgArg, fgCmds, evSide, outside>>

\* _ = a.persistPosition() (app.go:254).
LoadPersist ==
  /\ Alive /\ fgPc = "load.persist"
  /\ \E r \in persistPosition :
       IF r.panic THEN Panics
       ELSE /\ tsM' = r.m
            /\ fgCmds' = fgCmds \o r.cmds
            /\ fgPc' = "load.jump"
            /\ UNCHANGED <<Index, pauseAfterLoad, mpvPos, runState, fgArg, fgRet, evSide>>
  /\ UNCHANGED outside

\* playlist-play-index a.Index; its error is returned (app.go:255-257).
LoadJump ==
  /\ Alive /\ fgPc = "load.jump"
  /\ fgCmds' = Append(fgCmds, PlayIndex(Index))
  /\ \E o \in Outcomes :
       /\ mpvPos' \in PosAfter(PlayIndex(Index), o)
       /\ IF o = "ok"
            THEN fgPc' = "load.osd" /\ UNCHANGED fgRet
            ELSE fgPc' = "ret" /\ fgRet' = "command failed"
  /\ UNCHANGED <<Index, pauseAfterLoad, runState, tsM, fgArg, evSide, outside>>

\* The osd of a.Playlist[a.Index], the flag, return nil (app.go:258-262).
LoadOsd ==
  /\ Alive /\ fgPc = "load.osd"
  /\ IF InRange(Index)
       THEN /\ fgCmds' = Append(fgCmds, ShowText)
            /\ pauseAfterLoad' = IF ~Continuous THEN FALSE ELSE pauseAfterLoad
            /\ fgRet' = "nil"
            /\ fgPc' = "ret"
            /\ UNCHANGED <<Index, mpvPos, runState, tsM, fgArg, evSide>>
       ELSE Panics
  /\ UNCHANGED outside

\* Run after handleRune returned: an error ends Run with it (app.go:94-100).
RunAfterRune ==
  /\ Alive /\ fgPc = "ret"
  /\ fgPc' = "idle" /\ fgArg' = 0 /\ fgCmds' = <<>> /\ fgRet' = "none"
  /\ runState' = IF fgRet = "nil" THEN runState ELSE "err.handler"
  /\ UNCHANGED <<Index, pauseAfterLoad, mpvPos, tsM, evSide, outside>>

\* Space, the arrows, the speed and screenshot keys and the other lines of
\* the command mode: one command and an osd, their errors dropped
\* (app.go:78-92, 115-150, 386-430).
PlainKey ==
  /\ Alive /\ fgPc = "idle"
  /\ fgCmds' \in { <<KeyCmd, ShowText>>, <<ShowText>> }
  /\ fgRet' = "nil"
  /\ fgPc' = "ret"
  /\ UNCHANGED <<Index, pauseAfterLoad, mpvPos, runState, tsM, fgArg, evSide, outside>>

\* 'q', Ctrl-C, ":q": persistPosition, quit, return nil (app.go:74-77,
\* 107-110, 359-361).
QuitKey ==
  /\ Alive /\ fgPc = "idle"
  /\ fgPc' = "quit.persist"
  /\ fgCmds' = <<>>
  /\ fgRet' = "none"
  /\ UNCHANGED <<Index, pauseAfterLoad, mpvPos, runState, tsM, fgArg, evSide, outside>>

\* A quit that tells the subprocess first and saves afterwards.
QuitFirst(persisted) == <<QuitCmd>> \o persisted

\* _ = a.persistPosition(); _ = a.MPV.Command(ctx, "quit") (app.go:75-76,
\* 108-109, 359-360): the quit command follows what persistPosition issued.
QuitLast(persisted) == Append(persisted, QuitCmd)

QuitPersist ==
  /\ Alive /\ fgPc = "quit.persist"
  /\ \E r \in persistPosition :
       IF r.panic THEN Panics
       ELSE /\ tsM' = r.m
            /\ fgCmds' = QuitLast(fgCmds \o r.cmds)
            /\ fgPc' = "idle"
            /\ runState' = "nil.quit"
            /\ UNCHANGED <<Index, pauseAfterLoad, mpvPos, fgArg, fgRet, evSide>>
  /\ UNCHANGED outside

\* in.ReadKey fails (app.go:68-71), or the command line cannot be read
\* (app.go:341-344): Run returns the error.
KeyError ==
  /\ Alive /\ fgPc = "idle"
  /\ runState' = "err.key"
  /\ UNCHANGED <<Index, pauseAfterLoad, mpvPos, tsM, fgPc, fgArg, fgCmds, fgRet, evSide,
                 outside>>

\* The client is done: Run returns nil (app.go:57-61).
RunDone ==
  /\ Alive /\ fgPc = "idle" /\ closedSig
  /\ runState' = "nil.done"
  /\ UNCHANGED <<Index, pauseAfterLoad, mpvPos, tsM, fgPc, fgArg, fgCmds, fgRet, evSide,
                 outside>>

(***************************************************************************)
(* The event task: App.eventLoop (app.go:298-333).  It takes the events of *)
(* the subprocess one at a time; an event can be late, so the position it  *)
(* carries is any position of the subprocess.                              *)
(***************************************************************************)
fgSide == <<fgPc, fgArg, fgCmds, fgRet>>

\* A lock that is never held.
LastMuFreeAlways == TRUE

\* a.lastMu (app.go:484, 490, 504, 507): the sampler holds it between its
\* two writes of the last sample; flushLastSample takes it for its reads.
LastMuFree == smPc # "w.pos"

\* App.flushLastSample (app.go:500-513): the store after it.
flushLastSample ==
  IF ResumeState /\ lastSample.path # ""
    THEN SetMap(tsM, lastSample.path, lastSample.pos)
    ELSE tsM

\* property-change of playlist-pos (app.go:301-313).
EvPropertyChange(n) ==
  /\ Alive /\ evPc = "idle"
  /\ LastMuFree
  /\ tsM' = flushLastSample
  /\ Index' = IF n >= 0 THEN n ELSE Index
  /\ UNCHANGED <<pauseAfterLoad, mpvPos, runState, fgSide, evPc, evCmds, lastSample,
                 outside>>

\* end-file: persistPosition (app.go:314-315).
EvEndFile ==
  /\ Alive /\ evPc = "idle"
  /\ \E r \in persistPosition :
       IF r.panic THEN Panics
       ELSE /\ tsM' = r.m
            /\ evCmds' = r.cmds
            /\ evPc' = "end.arm"
            /\ UNCHANGED <<Index, pauseAfterLoad, mpvPos, runState, fgSide, lastSample>>
  /\ UNCHANGED outside

\* An end-file that arms the flag whatever the configuration.
ArmsAlways == TRUE

\* !a.Continuous && !a.AutoPlay (app.go:316).
Arms == ~Continuous /\ ~AutoPlay

\* if !a.Continuous && !a.AutoPlay { a.pauseAfterLoad = true } (app.go:316-319).
EndArm ==
  /\ Alive /\ evPc = "end.arm"
  /\ pauseAfterLoad' = IF Arms THEN TRUE ELSE pauseAfterLoad
  /\ evPc' = "done"
  /\ UNCHANGED <<Index, mpvPos, runState, tsM, fgSide, evCmds, lastSample, outside>>

\* file-loaded: a.syncIndex() (app.go:320-321).
EvFileLoaded ==
  /\ Alive /\ evPc = "idle"
  /\ \E i \in syncIndex : Index' = i
  /\ evCmds' = <<GetPlaylistPos>>
  /\ evPc' = "fl.restore"
  /\ UNCHANGED <<pauseAfterLoad, mpvPos, runState, tsM, fgSide, lastSample, outside>>

\* _ = a.RestorePosition(context.Background()) (app.go:322).
FlRestore ==
  /\ Alive /\ evPc = "fl.restore"
  /\ \E r \in RestorePosition :
       IF r.panic THEN Panics
       ELSE /\ evCmds' = evCmds \o r.cmds
            /\ evPc' = "fl.pause"
            /\ UNCHANGED <<Index, pauseAfterLoad, mpvPos, runState, tsM, fgSide,
                           lastSample>>
  /\ UNCHANGED outside

\* A file-loaded handler that pauses without consuming the flag.
PauseCommandsKeepFlag ==
  [cmds |-> (IF AutoPlay THEN <<SetPause(FALSE)>> ELSE <<>>)
              \o (IF pauseAfterLoad /\ ~AutoPlay THEN <<SetPause(TRUE), ShowText>>
                  ELSE <<>>),
   flag |-> pauseAfterLoad]

\* The two ifs that end the file-loaded handler (app.go:323-330).
PauseCommands ==
  [cmds |-> (IF AutoPlay THEN <<SetPause(FALSE)>> ELSE <<>>)
              \o (IF pauseAfterLoad /\ ~AutoPlay THEN <<SetPause(TRUE), ShowText>>
                  ELSE <<>>),
   flag |-> IF pauseAfterLoad /\ ~AutoPlay THEN FALSE ELSE pauseAfterLoad]

FlPause ==
  /\ Alive /\ evPc = "fl.pause"
  /\ evCmds' = evCmds \o PauseCommands.cmds
  /\ pauseAfterLoad' = PauseCommands.flag
  /\ evPc' = "done"
  /\ UNCHANGED <<Index, mpvPos, runState, tsM, fgSide, lastSample, outside>>

\* Back to the range over the events (app.go:299).
EvNext ==
  /\ Alive /\ evPc = "done"
  /\ evPc' = "idle"
  /\ evCmds' = <<>>
  /\ UNCHANGED <<Index, pauseAfterLoad, mpvPos, runState, tsM, fgSide, lastSample, outside>>

(***************************************************************************)
(* The sampler: App.sampleAndMaybeSave (app.go:474-498), run every second  *)
(* by periodicSaveLoop (463-472) when resume is enabled.                   *)
(***************************************************************************)
SampleAndMaybeSave ==
  /\ Alive /\ ResumeState
  /\ "ok" \in Outcomes /\ mpvPos >= 0
  /\ \E pos \in Offsets :
       /\ lastSample' = [path |-> MpvPath(mpvPos), pos |-> pos]
       /\ tsM' = SetMap(tsM, MpvPath(mpvPos), pos)
  /\ lastSample' # lastSample \/ tsM' # tsM
  /\ UNCHANGED <<Index, pauseAfterLoad, mpvPos, runState, fgSide, evPc, evCmds, outside>>

(***************************************************************************)
(* The subprocess and the transport as the session sees them.              *)
(***************************************************************************)
\* The subprocess changes entry on its own: its window's key bindings
\* (mpv_files.go), the end of a file, a playlist it was given otherwise.
MpvMoves ==
  /\ Alive
  /\ mpvPos' \in MpvPositions \ {mpvPos}
  /\ UNCHANGED <<Index, pauseAfterLoad, runState, tsM, fgSide, evSide, outside>>

ipcRest == <<nextID, pending, chBuf, connClosed, closeOnce, nSigClose,
             nConnClose, panicked, events, eventsClosed, nEventsClose,
             sawEnd, inbox, sent, peerClosed, rdPc, rdCh, rdId,
             clPc, cPc, cId, cSite, cDeadline, cExpired, cOut, cGot>>

\* The client's closed signal (ipc.go:85): Done() is readable from now on
\* and every command fails.
DoneCloses ==
  /\ Alive /\ ~closedSig
  /\ closedSig' = TRUE
  /\ UNCHANGED <<ipcRest, storeVars, Index, pauseAfterLoad, mpvPos, runState, fgSide,
                 evSide, config, smPc, evArg, savedAgo>>

(***************************************************************************)
(* The session: main builds the App (part_003:135-146), Run starts the     *)
(* event task and the sampler and serves the keys.                         *)
(***************************************************************************)
InitApp(resume) ==
  /\ InitClient
  /\ InitNoStore
  /\ Index \in 0..(PlLen - 1)
  /\ mpvPos = Index
  /\ pauseAfterLoad = FALSE
  /\ Continuous \in BOOLEAN
  /\ AutoPlay \in BOOLEAN
  /\ ResumeState \in resume
  /\ runState = "running"
  /\ fgPc = "idle" /\ fgArg = 0 /\ fgCmds = <<>> /\ fgRet = "none"
  /\ evPc = "idle" /\ evCmds = <<>>
  /\ lastSample = [path |-> "", pos |-> 0]
  /\ evArg = 0
  /\ savedAgo = SaveEvery

\* The sampler is past the test that opens periodicSaveLoop (app.go:464-466).
InitSessionWith(resume) ==
  /\ InitApp(resume)
  /\ smPc = IF ResumeState THEN "wait" ELSE "done"

InitSession == InitSessionWith(BOOLEAN)

ForegroundStep ==
  \/ \E dir \in {1, 0 - 1} : NextPrevKey(dir)
  \/ NavPersist \/ NavSync \/ NavBranch \/ NavWrapped \/ NavResync \/ NavFinish
  \/ \E i \in OpenArgs : OpenLine(i)
  \/ LoadCheck \/ LoadPersist \/ LoadJump \/ LoadOsd
  \/ RunAfterRune
  \/ PlainKey
  \/ QuitKey \/ QuitPersist
  \/ KeyError
  \/ RunDone

EventStep ==
  \/ \E n \in MpvPositions : EvPropertyChange(n)
  \/ EvEndFile \/ EndArm
  \/ EvFileLoaded \/ FlRestore \/ FlPause
  \/ EvNext

\* The keys and command lines against a subprocess that moves on its own.
NextNav ==
  \/ ForegroundStep
  \/ \E n \in MpvPositions : EvPropertyChange(n)
  \/ MpvMoves
  \/ DoneCloses

SpecNav == InitSession /\ [][NextNav]_vars

\* The keys and the events of a session that keeps no resume state: the
\* pause-after-load flag between the two tasks.
NextPause ==
  \/ ForegroundStep
  \/ EventStep
  \/ MpvMoves
  \/ DoneCloses

SpecPause == InitSessionWith({FALSE}) /\ [][NextPause]_vars

\* The events and the sampler of a session that resumes.
NextResume ==
  \/ EventStep
  \/ SampleAndMaybeSave
  \/ MpvMoves
  \/ DoneCloses

SpecResume == InitSessionWith({TRUE}) /\ [][NextResume]_vars

(***************************************************************************)
(* The sampler statement by statement: App.periodicSaveLoop                *)
(* (app.go:463-472) and App.sampleAndMaybeSave (app.go:474-498).  A tick   *)
(* is a second of the clock.                                               *)
(***************************************************************************)
\* A sampler that writes the file on every sample.
ShouldSaveAlways == TRUE

\* shouldSave := time.Since(a.lastSavedAt) >= 3*time.Second (app.go:487).
ShouldSave == savedAgo >= SaveEvery

\* for range t.C (app.go:469): the ticker fires, a second has passed.  The
\* loop has no other case and no way out.
SamplerTick ==
  /\ smPc = "wait"
  /\ smPc' = "sample"
  /\ savedAgo' = IF savedAgo < SaveEvery THEN savedAgo + 1 ELSE savedAgo
  /\ UNCHANGED <<ipcVars, storeVars, Index, pauseAfterLoad, mpvPos, runState, fgSide,
                 evSide, config, evArg>>

\* The two round trips (app.go:475-482); when one fails the run is over,
\* otherwise the sampler locks a.lastMu and sets a.lastSamplePath
\* (app.go:484-485).
SamplerSample ==
  /\ smPc = "sample"
  /\ \/ /\ "ok" \in Outcomes /\ mpvPos >= 0
        /\ lastSample' = [lastSample EXCEPT !.path = MpvPath(mpvPos)]
        /\ smPc' = "w.pos"
     \/ /\ smPc' = "wait"
        /\ UNCHANGED lastSample
  /\ UNCHANGED <<ipcVars, storeVars, Index, pauseAfterLoad, mpvPos, runState, fgSide,
                 evPc, evCmds, config, evArg, savedAgo>>

\* a.lastSamplePos = pos, shouldSave and a.lastSavedAt, Unlock, and
\* a.Timestamps.Set(path, pos) (app.go:486-494).
SamplerWritePos ==
  /\ smPc = "w.pos"
  /\ \E pos \in Offsets :
       /\ lastSample' = [lastSample EXCEPT !.pos = pos]
       /\ tsM' = SetMap(tsM, lastSample.path, pos)
  /\ IF ShouldSave
       THEN savedAgo' = 0 /\ smPc' = "save"
       ELSE savedAgo' = savedAgo /\ smPc' = "wait"
  /\ UNCHANGED <<ipcVars, storeRest, Index, pauseAfterLoad, mpvPos, runState, fgSide,
                 evPc, evCmds, config, evArg>>

\* if shouldSave { _ = a.Timestamps.Save() } (app.go:495-497).
SamplerSave ==
  /\ smPc = "save"
  /\ smPc' = "wait"
  /\ UNCHANGED <<ipcVars, storeVars, Index, pauseAfterLoad, mpvPos, runState, fgSide,
                 evSide, config, evArg, savedAgo>>

SamplerStep == SamplerTick \/ SamplerSample \/ SamplerWritePos \/ SamplerSave

(***************************************************************************)
(* The handler of property-change (app.go:301-313) statement by statement. *)
(***************************************************************************)
\* name == "playlist-pos": _ = a.flushLastSample() (app.go:304-307), with
\* the event's data n still to be decoded.
EvPositionFlush(n) ==
  /\ Alive /\ evPc = "idle"
  /\ LastMuFree
  /\ tsM' = flushLastSample
  /\ evArg' = n
  /\ evCmds' = <<>>
  /\ evPc' = "pos.index"
  /\ UNCHANGED <<Index, pauseAfterLoad, mpvPos, runState, fgSide, lastSample, handlerRest>>

\* An index that follows every number the subprocess sends.
IndexAfterAny(n) == n

\* if n >= 0 { a.Index = n } (app.go:310-312).
IndexAfter(n) == IF n >= 0 THEN n ELSE Index

EvPositionIndex ==
  /\ Alive /\ evPc = "pos.index"
  /\ Index' = IndexAfter(evArg)
  /\ evArg' = 0
  /\ evPc' = "done"
  /\ UNCHANGED <<pauseAfterLoad, mpvPos, runState, tsM, fgSide, evCmds, lastSample,
                 handlerRest>>

\* A property-change of another property: name != "playlist-pos"
\* (app.go:304), nothing is done.
EvOtherProperty ==
  /\ Alive /\ evPc = "idle"
  /\ evCmds' = <<>>
  /\ evPc' = "done"
  /\ UNCHANGED <<Index, pauseAfterLoad, mpvPos, runState, tsM, fgSide, lastSample, outside>>

\* The property changes of a session, with the sampler at work.
NextProperty ==
  \/ \E n \in MpvPositions : EvPositionFlush(n)
  \/ EvPositionIndex
  \/ EvOtherProperty
  \/ EvNext
  \/ SamplerStep
  \/ MpvMoves
  \/ DoneCloses

\* The two playback settings play no part in these handlers: both are off.
InitProperty == InitSession /\ ~Continuous /\ ~AutoPlay

SpecProperty == InitProperty /\ [][NextProperty]_vars

(***************************************************************************)
(* The command mode: App.commandMode (app.go:335-432).  A line is what     *)
(* splitCmd (app.go:515-550) makes of it, a command word and its           *)
(* arguments; an argument is a sequence of characters.  Numbers are whole: *)
(* seconds and percents.                                                   *)
(***************************************************************************)
Digits == << "0", "1", "2", "3", "4", "5", "6", "7", "8", "9" >>
IsDigit(ch) == \E d \in 1..Len(Digits) : Digits[d] = ch
DigitVal(ch) == (CHOOSE d \in 1..Len(Digits) : Digits[d] = ch) - 1
AllDigits(s) == s # <<>> /\ \A i \in 1..Len(s) : IsDigit(s[i])

RECURSIVE DigitsVal(_)
DigitsVal(s) ==
  IF s = <<>> THEN 0
  ELSE 10 * DigitsVal(SubSeq(s, 1, Len(s) - 1)) + DigitVal(s[Len(s)])

RECURSIVE Pow10(_)
Pow10(n) == IF n = 0 THEN 1 ELSE 10 * Pow10(n - 1)

\* A parsed float64: a whole number, an infinity (v is its sign) or NaN.
Num(v) == [ok |-> TRUE, v |-> v, kind |-> "num"]
Inf(sign) == [ok |-> TRUE, v |-> sign, kind |-> "inf"]
NaN == [ok |-> TRUE, v |-> 0, kind |-> "nan"]
NoNumber == [ok |-> FALSE, v |-> 0, kind |-> "num"]

\* strconv.Atoi (app.go:376): an optional sign and decimal digits.
Atoi(tok) ==
  LET signed == tok # <<>> /\ tok[1] \in {"+", "-"}
      body == IF signed THEN Tail(tok) ELSE tok
  IN IF AllDigits(body)
       THEN Num(IF signed /\ tok[1] = "-" THEN 0 - DigitsVal(body) ELSE DigitsVal(body))
       ELSE NoNumber

\* strconv.ParseFloat (app.go:390, 405, 420) on whole numbers: what Atoi
\* takes, a mantissa with a decimal exponent, and the words for the
\* infinities and for NaN.
ParseFloat(tok) ==
  LET es == {i \in 1..Len(tok) : tok[i] = "e"}
      signed == tok # <<>> /\ tok[1] \in {"+", "-"}
      body == IF signed THEN Tail(tok) ELSE tok
  IN IF tok = << "n", "a", "n" >> THEN NaN
     ELSE IF body = << "i", "n", "f" >>
       THEN Inf(IF signed /\ tok[1] = "-" THEN 0 - 1 ELSE 1)
     ELSE IF es = {} THEN Atoi(tok)
     ELSE LET e == CHOOSE i \in es : \A j \in es : i <= j
              m == Atoi(SubSeq(tok, 1, e - 1))
              x == SubSeq(tok, e + 1, Len(tok))
          IN IF m.ok /\ AllDigits(x)
               THEN Num(m.v * Pow10(DigitsVal(x)))
               ELSE NoNumber

\* pct < lo and pct > hi on a float64: false for NaN.
Below(n, lo) == (n.kind = "num" /\ n.v < lo) \/ (n.kind = "inf" /\ n.v < 0)
Above(n, hi) == (n.kind = "num" /\ n.v > hi) \/ (n.kind = "inf" /\ n.v > 0)

\* strings.HasSuffix(args[0], "%") and strings.TrimSuffix (app.go:403-404).
HasSuffixPct(tok) == tok # <<>> /\ tok[Len(tok)] = "%"
TrimSuffixPct(tok) == SubSeq(tok, 1, Len(tok) - 1)

PctMin == 0
PctMax == 100

\* A jump that sends the percent as typed.
ClampNone(n) == n

\* if pct < 0 { pct = 0 }; if pct > 100 { pct = 100 } (app.go:410-415).
Clamp(n) ==
  IF Below(n, PctMin) THEN Num(PctMin)
  ELSE IF Above(n, PctMax) THEN Num(PctMax)
  ELSE n

\* strings.Join(args, " ") (app.go:375).
RECURSIVE Join(_)
Join(args) ==
  IF Len(args) = 0 THEN <<>>
  ELSE IF Len(args) = 1 THEN args[1]
  ELSE args[1] \o << " " >> \o Join(Tail(args))

\* strings.ToLower (app.go:447, 449).
Upper == << "A", "B", "C" >>
Lower == << "a", "b", "c" >>
LowerCh(ch) ==
  IF \E i \in 1..Len(Upper) : Upper[i] = ch
    THEN Lower[CHOOSE i \in 1..Len(Upper) : Upper[i] = ch]
    ELSE ch
ToLower(s) == [i \in 1..Len(s) |-> LowerCh(s[i])]

\* strings.Contains (app.go:449).
Contains(s, sub) ==
  \E k \in 0..(Len(s) - Len(sub)) : SubSeq(s, k + 1, k + Len(sub)) = sub

\* AllFiles names the entries; these are the characters of their base names
\* (filepath.Base, app.go:449), in the same order.
BaseNames ==
  << << "a", "1" >>, << "A", "b" >>, << "a", "B", "c" >>,
     << "c", "a" >>, << "b", "2" >>, << "C", "c" >> >>
BaseName(i) == BaseNames[i + 1]

\* App.findBySubstring (app.go:446-454): the first entry whose base name
\* holds q, both in lower case; -1 when there is none.
findBySubstring(q) ==
  LET hits == {i \in 0..(PlLen - 1) : Contains(ToLower(BaseName(i)), ToLower(q))}
  IN IF hits = {} THEN 0 - 1 ELSE CHOOSE i \in hits : \A j \in hits : i <= j

\* The arguments typed in the model.
Tokens ==
  { << "+", "3", "0" >>, << "-", "1", "0" >>, << "1", "e", "1" >>, << "2" >>, << "0" >>,
    << "3" >>, << "1", "5", "0", "%" >>, << "5", "0", "%" >>, << "-", "5", "%" >>,
    << "x", "%" >>, << "%" >>, << "a", "b" >>, << "B" >>, << "a" >>, << "z" >>,
    << "n", "a", "n" >>, << "n", "a", "n", "%" >>, << "i", "n", "f" >>,
    << "i", "n", "f", "%" >>, << "-", "i", "n", "f", "%" >> }
ArgLists ==
  {<<>>} \cup {<<t>> : t \in Tokens}
    \cup { << << "+", "3", "0" >>, << "2" >> >>, << << "5", "0", "%" >>, << "0" >> >>,
           << << "a" >>, << "B" >> >> }

SeekRelative(sec) == Cmd("seek relative", sec)
SeekPercent(pct) == Cmd("seek absolute-percent", pct)
UsageText == Cmd("show-text: usage", 0)
InvalidText == Cmd("show-text: invalid", 0)
NotFoundText == Cmd("show-text: not found", 0)

Notice(text) == [cmds |-> <<text>>, load |-> FALSE, index |-> 0]
\* a.MPV.Command with the number n and then a.osd: encoding/json refuses an
\* infinity and NaN, and CommandData returns before it writes (ipc.go:168-171).
Sends(n, cmd) ==
  [cmds |-> IF n.kind = "num" THEN <<cmd, ShowText>> ELSE <<ShowText>>,
   load |-> FALSE, index |-> 0]
Loads(i) == [cmds |-> <<>>, load |-> TRUE, index |-> i]

\* A seek that takes its first argument whatever follows it.
SeekArityLoose(args) == Len(args) >= 1

\* len(args) != 1 (app.go:386, 399).
SeekArity(args) == Len(args) = 1

\* case "seek" (app.go:385-397).
CmdSeek(args) ==
  IF ~SeekArity(args) THEN Notice(UsageText)
  ELSE LET sec == ParseFloat(args[1])
       IN IF ~sec.ok THEN Notice(InvalidText) ELSE Sends(sec, SeekRelative(sec.v))

\* case "jump" (app.go:398-427).
CmdJump(args) ==
  IF ~SeekArity(args) THEN Notice(UsageText)
  ELSE IF HasSuffixPct(args[1])
    THEN LET pct == ParseFloat(TrimSuffixPct(args[1]))
         IN IF ~pct.ok THEN Notice(InvalidText)
            ELSE Sends(Clamp(pct), SeekPercent(Clamp(pct).v))
    ELSE LET sec == ParseFloat(args[1])
         IN IF ~sec.ok THEN Notice(InvalidText) ELSE Sends(sec, SeekAbsolute(sec.v))

\* case "open", "o" (app.go:370-384).
CmdOpen(args) ==
  IF Len(args) = 0 THEN Notice(UsageText)
  ELSE LET target == Join(args)
           k == Atoi(target)
       IN IF k.ok THEN Loads(k.v - 1)
          ELSE IF findBySubstring(target) < 0 THEN Notice(NotFoundText)
          ELSE Loads(findBySubstring(target))

CommandWords == {"seek", "jump", "open"}

Dispatch(word, args) ==
  CASE word = "seek" -> CmdSeek(args)
    [] word = "jump" -> CmdJump(args)
    [] OTHER -> CmdOpen(args)

\* ':' (app.go:142-143): commandMode calls tty.ReadLine, which reads keys
\* until Enter or Esc (avail_darwin.go:176-212).
ColonKey ==
  /\ Alive /\ fgPc = "idle"
  /\ fgPc' = "line"
  /\ fgCmds' = <<>>
  /\ fgRet' = "none"
  /\ UNCHANGED <<Index, pauseAfterLoad, mpvPos, runState, tsM, fgArg, evSide, outside>>

\* The line is a seek, a jump or an open.
CommandMode(word, args) ==
  /\ Alive /\ fgPc = "line"
  /\ LET r == Dispatch(word, args)
     IN /\ fgCmds' = r.cmds
        /\ fgArg' = r.index
        /\ IF r.load
             THEN fgPc' = "load.check" /\ fgRet' = "none"
             ELSE fgPc' = "ret" /\ fgRet' = "nil"
  /\ UNCHANGED <<Index, pauseAfterLoad, mpvPos, runState, tsM, evSide, outside>>

\* Esc, an empty line, help, ls and an unknown word: at most an osd
\* (app.go:341-357, 366-369, 428-430).
LineWithoutCommand ==
  /\ Alive /\ fgPc = "line"
  /\ fgCmds' \in { <<>>, <<ShowText>> }
  /\ fgRet' = "nil"
  /\ fgPc' = "ret"
  /\ UNCHANGED <<Index, pauseAfterLoad, mpvPos, runState, tsM, fgArg, evSide, outside>>

\* tty.ReadLine fails (app.go:337-339): Run returns the error.
LineError ==
  /\ Alive /\ fgPc = "line"
  /\ runState' = "err.key"
  /\ fgPc' = "idle"
  /\ UNCHANGED <<Index, pauseAfterLoad, mpvPos, tsM, fgArg, fgCmds, fgRet, evSide, outside>>

\* The command mode of a session whose subprocess stays on its entry.
NextCmd ==
  \/ ColonKey
  \/ \E word \in CommandWords, args \in ArgLists : CommandMode(word, args)
  \/ LineWithoutCommand
  \/ LineError
  \/ LoadCheck \/ LoadPersist \/ LoadJump \/ LoadOsd
  \/ RunAfterRune
  \/ RunDone
  \/ DoneCloses

SpecCmd == InitSession /\ [][NextCmd]_vars

(***************************************************************************)
(* Fairness.  The Go scheduler runs every runnable goroutine: a goroutine  *)
(* that can take its next step eventually takes it.  Nothing makes the     *)
(* subprocess write or hang up, a timer belongs to its call, and nothing   *)
(* makes the application call Command or Close.                            *)
(***************************************************************************)
CloseProgress(k) ==
  CloseEnter(k) \/ CloseSignal(k) \/ ClosePending(k) \/ CloseConn(k) \/ CloseReturn(k)

CallProgress(c) == Write(c) \/ Select(c) \/ Return(c)

GoroutinesRun ==
  /\ \A k \in Closers : WF_vars(CloseProgress(k))
  /\ \A c \in Tasks : WF_vars(CallProgress(c))
  /\ WF_vars(ReaderStep)

\* Waiting calls and Close with the goroutines scheduled fairly.
FairWait == SpecWait /\ GoroutinesRun

\* The flood with the goroutines scheduled fairly and nobody obliged to
\* drain Events().
FairFlood == SpecFlood /\ GoroutinesRun

\* The event channel with a consumer that keeps draining Events().
FairDrain == SpecDrain /\ GoroutinesRun /\ WF_vars(ConsumerStep)

(***************************************************************************)
(* The session when the subprocess goes away.  The reader meets the end of *)
(* the connection and closes the client (ipc.go:104-108); Run and the two   *)
(* tasks it started (app.go:52-53) go on from there.                       *)
(***************************************************************************)
\* for ev := range a.MPV.Events() ends once the channel is closed and empty
\* (app.go:299): eventLoop returns.
EvExit ==
  /\ evPc = "idle" /\ eventsClosed /\ events = <<>>
  /\ evPc' = "exited"
  /\ UNCHANGED <<Index, pauseAfterLoad, mpvPos, runState, tsM, fgSide, evCmds, lastSample,
                 outside>>

\* What the program does by itself once it may: the reader and its Close,
\* the two tasks, and Run between two keys.
ShutdownProgram ==
  \/ ReaderReadErr \/ CloseProgress(Reader) \/ ReaderCloseEvents
  \/ EvExit
  \/ SamplerStep
  \/ RunAfterRune \/ RunDone

\* What the user and the subprocess do, when they do it.  Run looks at
\* Done() before it looks for a key (app.go:57-66), so a key typed after the
\* closed signal is read only by a ReadLine that is already waiting.
ShutdownInput ==
  \/ ~closedSig /\ (ColonKey \/ PlainKey)
  \/ LineWithoutCommand
  \/ PeerClose

NextShutdown == ShutdownProgram \/ ShutdownInput

SpecShutdown == InitSessionWith({TRUE}) /\ [][NextShutdown]_vars

\* The Go scheduler runs the program's steps; nothing obliges the user to
\* type or the subprocess to go away.
FairShutdown ==
  /\ SpecShutdown
  /\ WF_vars(ReaderReadErr \/ CloseProgress(Reader) \/ ReaderCloseEvents)
  /\ WF_vars(EvExit)
  /\ WF_vars(SamplerStep)
  /\ WF_vars(RunAfterRune \/ RunDone)

C2_AfterCloseTransportClosed ==
  [][\A c \in Tasks :
       (closeOnce = "done" /\ cPc[c] = "write" /\ cPc'[c] # "write")
         => (cPc'[c] = "ret" /\ cOut'[c] = "closed")]_vars

\* C3: when c.closed is closed, every call parked in the select is handed
\* the closed case at that instant, with or without a deadline; no call is
\* parked while c.closed is closed; and a call that is parked when a closer
\* is about to close c.closed returns.
C3_CloseUnblocksWaiters ==
  /\ [][(~closedSig /\ closedSig') =>
          \A c \in Tasks : cPc[c] = "blocked" => (cPc'[c] = "ret" /\ cOut'[c] = "closed")]_vars
  /\ [](closedSig => Blocked = {})
  /\ \A c \in IPCCallers :
       (\/ cPc[c] = "blocked" /\ \E k \in Closers : clPc[k] = "signal"
        \/ cPc[c] = "ret" /\ cOut[c] = "closed") ~> (cPc[c] = "idle")

\* C3 witness: two calls, one without a deadline, have been woken by Close
\* with the closed error.
C3_Witness ==
  /\ \A c \in IPCCallers : cPc[c] = "ret" /\ cOut[c] = "closed"
  /\ \E c \in IPCCallers : ~cDeadline[c]
  /\ \E k \in Closers : clPc[k] = "clear"

\* C4: whatever the number of Close calls, from main and from the reader,
\* c.closed is closed once, the connection is closed once, nothing panics,
\* and a Close call that finds the body done changes nothing of the client.
C4_CloseExactlyOnce ==
  /\ [](nSigClose <= 1 /\ nConnClose <= 1 /\ ~panicked)
  /\ [][\A k \in Closers :
          (clPc[k] = "enter" /\ closeOnce = "done" /\ clPc'[k] # "enter")
            => UNCHANGED <<nextID, pending, chBuf, closeState, eventState>>]_vars

\* C4 witness: main and the reader both called Close, both are returning,
\* and the body ran.
C4_Witness ==
  /\ clPc["main"] = "ret" /\ clPc[Reader] = "ret"
  /\ nSigClose = 1 /\ nConnClose = 1

\* C5: with nobody obliged to drain Events(), the reader can always take
\* the next record, and a call parked for a reply that is in the socket
\* (behind events or not) is woken with that reply.
C5_EventsNeverStallReplies ==
  /\ []((rdPc = "read" /\ inbox # <<>>) => ENABLED ReaderRead)
  /\ (cPc["fg"] = "blocked" /\ \E j \in 1..Len(inbox) : inbox[j] = ReplyRec(cId["fg"]))
       ~> (cPc["fg"] = "ret" /\ cOut["fg"] = "reply")

\* C5 witness: the event channel is full, the socket holds one more event and
\* behind it the reply the parked call waits for.
C5_Witness ==
  /\ Len(events) = EventsCap
  /\ Len(inbox) >= 2
  /\ inbox[1].t = "event"
  /\ inbox[2] = ReplyRec(cId["fg"])
  /\ cPc["fg"] = "blocked"

\* C6: the event channel is closed once, and only by the reader after it
\* stopped; nothing is put on it after that; and once the Close body has run
\* a consumer that keeps draining receives end-of-stream.
C6_EventsClosedOnceAfterReader ==
  /\ [](nEventsClose <= 1 /\ ~panicked /\ (eventsClosed => rdPc = "done"))
  /\ [][eventsClosed => (events' = events \/ events' = Tail(events))]_vars
  /\ (closeOnce = "done") ~> sawEnd

\* C6 witness: after Close, the consumer received end-of-stream having
\* drained the channel.
C6_Witness == sawEnd /\ closeOnce = "done" /\ clPc["main"] = "idle" /\ nSigClose = 1

(***************************************************************************)
(* Claims about the session controller.                                    *)
(***************************************************************************)

\* C7: every round trip a task of the session controller has in flight
\* carries a deadline, so a task parked in a round trip is one whose timer
\* is still to fire.
C7_EveryRoundTripHasDeadline ==
  \A c \in Tasks : cPc[c] # "idle" => cDeadline[c]

(***************************************************************************)
(* Claims about the timestamp store.                                       *)
(***************************************************************************)
IsSerialization(b) == \E m \in Mappings : b = MarshalIndent(m)

\* C8: whatever Saves run, together or not, and wherever the process is
\* killed, the file at the target path holds a complete serialization of a
\* map (the one it held before or a newer one), never a part of one.
C8_TargetNeverPartial ==
  fsName[TargetPath] # NoInode => IsSerialization(fsData[fsName[TargetPath]])

\* C9: when a Save of a file-backed store returns success, a Load into a
\* fresh store on the same path yields the mapping that Save was given.
C9_SaveLoadRoundTrip ==
  [][(SaveRename(StoreTask) /\ svRet'[StoreTask] = "ok")
       => Load(tsPath, EmptyMap, fsName', fsData', fsDenied').m = svMap[StoreTask]]_vars

\* C10: a Load whose file is absent or may not be read returns no error and
\* leaves the fresh store empty; a Save of a store with no path returns
\* success and touches no file; after Set(path, sec), Get(path) returns sec.
C10_BestEffortLoadSaveSet ==
  /\ [][FreshLoad =>
          /\ ldRet' = "ok"
          /\ (tsPath = "" \/ ReadFile(fsName, fsData, fsDenied, TargetPath).err)
               => ldM' = EmptyMap]_vars
  /\ [][(tsPath = "" /\ SaveCall(StoreTask)) =>
          /\ svRet'[StoreTask] = "ok"
          /\ svPc'[StoreTask] = "idle"
          /\ UNCHANGED <<fsName, fsData, fsDenied>>]_vars
  /\ [](tsPath = "" => \A n \in FileNames : fsName[n] = NoInode)
  /\ [][\A k \in Keys, v \in Secs :
          Set(StoreTask, k, v) => Get(tsM', k) = [v |-> v, ok |-> TRUE]]_vars

\* C10 witness: the backing file may not be read, a fresh store loaded and is
\* empty with no error, and the store in use took a Set.
C10_Witness ==
  /\ tsPath = TargetPath
  /\ fsName[TargetPath] \in fsDenied
  /\ ldRet = "ok"
  /\ ldM = EmptyMap
  /\ tsM # EmptyMap

(***************************************************************************)
(* The session controller: claims about navigation, Load and the run loop. *)
(***************************************************************************)
\* C11: in every reachable state of a session with a non-empty playlist,
\* 0 <= Index < len(playlist), whatever the sequence and interleaving of
\* Next, Prev, Load, index re-syncs and playlist-position events.
C11_IndexInRange == InRange(Index)

\* The step of Next (dir = 1) or Prev (dir = -1) that issues the navigation
\* command, and the step that sets Index after a jump.
IssuesNavCommand(dir) == fgPc = "nav.branch" /\ fgPc' # fgPc /\ fgArg = dir
SetsIndexAfterJump(dir) == fgPc = "nav.wrapped" /\ fgPc' # fgPc /\ fgArg = dir

C13_WrapOnlyWhenContinuous ==
  [][/\ IssuesNavCommand(1) =>
          fgCmds' = Append(fgCmds, IF Continuous /\ Index >= PlLen - 1
                                     THEN PlayIndex(0) ELSE PlaylistNext)
     /\ IssuesNavCommand(0 - 1) =>
          fgCmds' = Append(fgCmds, IF Continuous /\ Index <= 0
                                     THEN PlayIndex(PlLen - 1) ELSE PlaylistPrev)]_vars

\* The navigation commands: the two adjacent moves and the jumps.
IsNavCommand(cmd) ==
  cmd.name \in {PlaylistNext.name, PlaylistPrev.name, PlayIndex(0).name}

\* C14: after every Next or Prev, on the wraparound path as on the adjacent
\* path, Index is set from a playlist-position query made after the
\* navigation command was issued, never from an assumed value.
C14_IndexFromQueryAfterNavigation ==
  fgPc = "nav.finish" =>
    \E i, j \in 1..Len(fgCmds) :
      /\ i < j
      /\ IsNavCommand(fgCmds[i])
      /\ fgCmds[j] = GetPlaylistPos

\* C15: Load(index) with index < 0 or index >= len(playlist) returns an
\* index-out-of-range error, issues no command to the subprocess, and leaves
\* Index, the pause-after-load flag and the Timestamp Store unchanged.
C15_LoadRejectsOutOfRange ==
  [][(fgPc = "load.check" /\ fgPc' # fgPc /\ (fgArg < 0 \/ fgArg >= PlLen)) =>
       /\ fgRet' = "index out of range"
       /\ fgPc' = "ret"
       /\ fgCmds = <<>> /\ fgCmds' = <<>>
       /\ UNCHANGED <<Index, pauseAfterLoad, tsM>>]_vars

\* C15 witness: a Load one past the end has returned the error, with no
\* command issued, in a session whose store holds an offset.
C15_Witness ==
  /\ fgPc = "ret"
  /\ fgArg = PlLen
  /\ fgRet = "index out of range"
  /\ fgCmds = <<>>
  /\ tsM # EmptyMap

\* C16: Load(index) with a valid index first records the outgoing item's
\* offset in the store under the outgoing item's path, also when the path
\* query fails and the playlist's path for the current index is the key,
\* then issues the jump command, and ends with Index = index.
C16_LoadRecordsOutgoingItem ==
  [][(fgPc = "load.persist" /\ fgPc' # fgPc /\ tsM' # tsM) =>
       /\ \E pos \in Offsets : tsM' = SetMap(tsM, MpvPath(mpvPos), pos)
       /\ ~Issued(fgCmds', PlayIndex(0).name)]_vars

(***************************************************************************)
(* The session controller: claims about the file-loaded and end-file       *)
(* handlers.                                                                *)
(***************************************************************************)
\* The paths RestorePosition can look up: the subprocess's, or the
\* playlist's at Index when the path query gives none.
LoadedPaths ==
  (IF mpvPos >= 0 /\ ~closedSig THEN {MpvPath(mpvPos)} ELSE {})
    \cup (IF InRange(Index) THEN {PlaylistAt(Index)} ELSE {})

\* The commands a step of the event task added to its log.
EvIssued == SubSeq(evCmds', Len(evCmds) + 1, Len(evCmds'))

\* C17: on file-loaded with resume enabled the controller takes the loaded
\* path from the subprocess, or the playlist's path at Index, and issues an
\* absolute seek to the stored offset if and only if the store holds an
\* offset above 0.5 s for that path: 0.3 s no seek, 5.0 s one seek to 5.0.
C17_ResumeSeekAboveThreshold ==
  [][(ResumeState /\ evPc = "fl.restore" /\ evPc' = "fl.pause") =>
       \E path \in LoadedPaths :
         LET seeks == {i \in 1..Len(EvIssued) : EvIssued[i].name = SeekAbsolute(0).name}
         IN IF path \in DOMAIN tsM /\ tsM[path] > ResumeThreshold
              THEN /\ Cardinality(seeks) = 1
                   /\ \A i \in seeks : EvIssued[i] = SeekAbsolute(tsM[path])
              ELSE seeks = {}]_vars

\* C17 witness: the store holds 0.3 s for one path and 5.0 s for the loaded
\* one, and the file-loaded handler has issued the seek to 5.0.
C17_Witness ==
  /\ ResumeState
  /\ evPc = "fl.pause"
  /\ \E i \in 1..Len(evCmds) : evCmds[i] = SeekAbsolute(50)
  /\ \E k \in DOMAIN tsM : tsM[k] = 3

\* The file-loaded handler's last step, and the number of pause commands it
\* issued there.
FileLoadedEnds == evPc = "fl.pause" /\ evPc' = "done"
PausesIssued ==
  Cardinality({i \in 1..Len(EvIssued) : EvIssued[i] = SetPause(TRUE)})

C20_HandlerFailureNeverEndsRun == runState # "err.handler"

(***************************************************************************)
(* Command mode.                                                           *)
(***************************************************************************)
Unsigned(tok) == IF tok # <<>> /\ tok[1] \in {"+", "-"} THEN Tail(tok) ELSE tok

\* A decimal numeral: an optional sign, digits, and optionally an exponent.
Numeral(tok) ==
  LET u == Unsigned(tok)
  IN \/ AllDigits(u)
     \/ \E e \in 2..(Len(u) - 1) :
          /\ u[e] = "e"
          /\ AllDigits(SubSeq(u, 1, e - 1))
          /\ AllDigits(SubSeq(u, e + 1, Len(u)))

\* The numbers of the float64 syntax: numerals and the signed infinities.
WellFormedNumber(tok) == Numeral(tok) \/ Unsigned(tok) = << "i", "n", "f" >>

Malformed(word, args) ==
  \/ Len(args) # 1
  \/ /\ Len(args) = 1
     /\ ~WellFormedNumber(IF word = "jump" /\ HasSuffixPct(args[1])
                            THEN TrimSuffixPct(args[1]) ELSE args[1])

IsNotice(cmd) ==
  cmd.name \in {"show-text", "show-text: usage", "show-text: invalid", "show-text: not found"}
IsSeek(cmd) ==
  cmd.name \in {"seek relative", "seek absolute", "seek absolute-percent"}

\* C21: a seek or jump line that has not exactly one argument, or whose
\* argument is not a well-formed number (for jump with an optional percent
\* sign), puts a notice on the screen, sends no seek command to the
\* subprocess and leaves the session's state as it was.
C21_MalformedSeekOnlyNotices ==
  [][\A word \in {"seek", "jump"}, args \in ArgLists :
       (fgPc = "line" /\ Malformed(word, args) /\ CommandMode(word, args)) =>
         /\ fgCmds' # <<>>
         /\ \A i \in 1..Len(fgCmds') : IsNotice(fgCmds'[i]) /\ ~IsSeek(fgCmds'[i])
         /\ fgPc' = "ret" /\ fgRet' = "nil"
         /\ UNCHANGED <<Index, pauseAfterLoad, mpvPos, runState, tsM, lastSample, outside>>]_vars

\* A seek or jump line was turned down for its argument.
C21_Witness == fgPc = "ret" /\ fgCmds = <<InvalidText>> /\ runState = "running"

\* Entry i's base name holds text at offset k, letter case aside.
HoldsAt(i, text, k) ==
  /\ k + Len(text) <= Len(BaseName(i))
  /\ \A j \in 1..Len(text) : LowerCh(BaseName(i)[k + j]) = LowerCh(text[j])
Holds(i, text) == \E k \in 0..Len(BaseName(i)) : HoldsAt(i, text, k)

SeeksIn(cmds) == {i \in 1..Len(cmds) : IsSeek(cmds[i])}
OneSeek(cmds, cmd) == SeeksIn(cmds) = {1} /\ cmds[1] = cmd

\* The lines of the user's guide and their neighbours, with what each asks for.
SeekLines ==
  { << << "+", "3", "0" >>, 30 >>, << << "-", "1", "0" >>, 0 - 10 >>,
    << << "1", "e", "1" >>, 10 >>, << << "2" >>, 2 >> }
PercentLines ==
  { << << "1", "5", "0", "%" >>, 100 >>, << << "5", "0", "%" >>, 50 >>,
    << << "-", "5", "%" >>, 0 >>, << << "i", "n", "f", "%" >>, 100 >> }
OpenNumbers ==
  { << << "2" >>, 1 >>, << << "3" >>, 2 >>, << << "0" >>, 0 - 1 >>, << << "-", "1", "0" >>, 0 - 11 >> }

\* C22: seek +N sends one relative seek of +N; jump P% sends one
\* absolute-percent seek of P brought into 0..100 (150% gives 100); open K
\* with an integer K loads index K-1; open text loads the first entry whose
\* file name holds text, letter case aside, and when there is none it says
\* "not found", loads nothing and leaves Index alone.
C22_CommandDispatch ==
  [][fgPc = "line" =>
      /\ \A l \in SeekLines :
           CommandMode("seek", << l[1] >>) =>
             OneSeek(fgCmds', SeekRelative(l[2])) /\ fgPc' = "ret"
      /\ \A l \in PercentLines :
           CommandMode("jump", << l[1] >>) =>
             OneSeek(fgCmds', SeekPercent(l[2])) /\ fgPc' = "ret"
      /\ \A args \in ArgLists :
           (CommandMode("jump", args) /\ Len(args) = 1 /\ HasSuffixPct(args[1])) =>
             \A i \in SeeksIn(fgCmds') :
               /\ fgCmds'[i].name = "seek absolute-percent"
               /\ fgCmds'[i].arg \in 0..100
      /\ \A l \in OpenNumbers :
           CommandMode("open", << l[1] >>) =>
             fgPc' = "load.check" /\ fgArg' = l[2] /\ fgCmds' = <<>>
      /\ \A args \in ArgLists :
           (CommandMode("open", args) /\ args # <<>> /\ ~AllDigits(Unsigned(Join(args)))) =>
             LET text == Join(args)
                 hits == {i \in 0..(PlLen - 1) : Holds(i, text)}
             IN IF hits = {}
                  THEN /\ fgCmds' = <<NotFoundText>>
                       /\ fgPc' = "ret"
                       /\ Index' = Index
                  ELSE /\ fgPc' = "load.check"
                       /\ fgArg' \in hits
                       /\ \A i \in hits : fgArg' <= i]_vars

\* A jump of 150% was sent as a jump to 100%.
C22_Witness == fgPc = "ret" /\ fgCmds = <<SeekPercent(PctMax), ShowText>> /\ runState = "running"

(***************************************************************************)
(* Claims about the end of a session.                                      *)
(***************************************************************************)
\* C23: after the transport closes, the event task and the periodic sampler
\* both come to an end; neither goes round for ever.
C23_BackgroundTasksTerminate == closedSig ~> (evPc = "exited" /\ smPc = "done")

QuitReturns == fgPc = "quit.persist" /\ fgPc' # "quit.persist"
CountOf(cmds, cmd) == Cardinality({i \in 1..Len(cmds) : cmds[i] = cmd})

C25_RunReturnsAfterClosure == closedSig ~> ~Alive

(***************************************************************************)
(* Claims about the request table and the reader.                          *)
(***************************************************************************)
\* C26: the table of outstanding requests does not grow without bound: once
\* every Command call issued so far has returned and Close has taken
\* effect, the table holds no entry.
C26_TableEmptyOnceQuiet ==
  ( /\ \A c \in Tasks : cPc[c] = "idle"
    /\ closeOnce = "done"
    /\ \A k \in Closers : clPc[k] = "idle" ) => pending = {}

\* The calls that hold an identifier.
InCall == {c \in Tasks : cPc[c] # "idle"}

\* A step that allocates an identifier.
Allocates(c) == cPc[c] = "idle" /\ cPc'[c] = "write"

\* C27: request identifiers are positive and strictly increasing in the
\* order of allocation, and no two Command calls, concurrent ones included,
\* get the same identifier or share a reply channel.
C27_IdentifiersUnique ==
  /\ [](\A c \in InCall : cId[c] >= 1 /\ cId[c] < nextID)
  /\ [](\A c, d \in InCall : c # d => cId[c] # cId[d])
  /\ [][\A c \in Tasks :
          Allocates(c) =>
            /\ cId'[c] = nextID /\ nextID' > nextID
            /\ \A d \in InCall : cId[d] < cId'[c]
            /\ chBuf'[cId'[c]] = NoReply]_vars
  /\ [][nextID' >= nextID]_vars

\* Two calls from different tasks are waiting at once, with the identifiers
\* 1 and 2.
C27_Witness ==
  /\ cPc["fg"] = "blocked" /\ cPc["ev"] = "blocked"
  /\ {cId["fg"], cId["ev"]} = {1, 2}
  /\ nextID = 3

\* The reader takes a record off the connection and handles it.
ReaderTakes == rdPc = "read" /\ inbox # <<>> /\ inbox' = Tail(inbox) /\ rdPc' # "closing"

\* The calls whose deadline has passed and that have given up on it.
GaveUp == {c \in Tasks : cPc[c] = "ret" /\ cOut[c] = "timeout"}

\* C28: a reply that arrives after its call gave up on its deadline is
\* discarded: the reader does not wait to hand it over, the entry leaves the
\* table, and no later call is given the reply.
C28_LateReplyDiscarded ==
  /\ [][(ReaderTakes /\ Head(inbox).t = "reply" /\ Head(inbox).id \in pending) =>
          /\ Head(inbox).id \notin pending'
          /\ rdPc' = "deliver" /\ rdId' = Head(inbox).id]_vars
  /\ [](rdPc = "deliver" => (chBuf[rdCh] = NoReply /\ rdCh \notin pending /\ ENABLED ReaderDeliver))
  /\ [][(rdPc = "deliver" /\ rdPc' # "deliver" /\ Holders(rdCh) = {}) =>
          UNCHANGED <<chBuf, pending, callState>>]_vars
  /\ [](\A c \in Tasks : cOut[c] = "reply" => cGot[c] = cId[c])
  /\ [][\A c \in Tasks : Allocates(c) => chBuf'[cId'[c]] = NoReply]_vars

\* The reply to a call has been taken off the connection after the call gave
\* up on its deadline and before it returned.
C28_Witness ==
  /\ rdPc = "deliver"
  /\ \E c \in GaveUp : cId[c] = rdId
  /\ Holders(rdCh) = {}

\* The records the reader has nothing to do with: a line that cannot be
\* decoded or has neither identifier nor event name, and a reply whose
\* identifier is not in the table (never issued, or removed already).
Skipped(rec) == rec.t = "junk" \/ (rec.t = "reply" /\ rec.id \notin pending)

\* C29: an undecodable record, a reply with an unknown or already removed
\* identifier (a second reply to an answered request included) and a record
\* with neither identifier nor event name each leave the table of
\* outstanding requests and the event stream as they were, and the reader
\* goes on with the records that follow.
C29_SkippedRecordsChangeNothing ==
  /\ [][(ReaderTakes /\ Skipped(Head(inbox))) =>
          /\ UNCHANGED <<pending, events, eventsClosed, chBuf, callState, closedSig>>
          /\ rdPc' = "read"
          /\ ~panicked']_vars
  /\ [](rdPc = "read" /\ inbox # <<>> => ENABLED ReaderRead)

\* A request has been answered and taken out of the table, and the reader
\* stands before a line that is no record.
C29_Witness ==
  /\ rdPc = "read"
  /\ inbox # <<>> /\ Head(inbox).t = "junk"
  /\ \E i \in sent : i \notin pending /\ cId["fg"] # i
  /\ nextID > 1

\* C30: when a read on the socket fails, the peer's normal close included,
\* the reader marks the transport closed, stops and closes the event
\* stream; from then on closed is final: the transport is never connected
\* again.
C30_ReadFailureClosesForGood ==
  /\ peerClosed ~> (rdPc = "done" /\ closedSig /\ connClosed /\ eventsClosed)
  /\ (rdPc = "closing") ~> (rdPc = "done" /\ closedSig /\ connClosed /\ eventsClosed)
  /\ [][(rdPc = "read" /\ rdPc' # "read") => (rdPc' = "closing" /\ clPc'[Reader] = "enter")]_vars
  /\ [][closedSig => closedSig']_vars
  /\ [][connClosed => connClosed']_vars
  /\ [][eventsClosed => eventsClosed']_vars
  /\ [][rdPc = "done" => rdPc' = "done"]_vars
  /\ [](rdPc = "done" => (closedSig /\ connClosed /\ eventsClosed))

\* The subprocess hung up and the reader, alone to call Close, has stopped.
C30_Witness ==
  /\ rdPc = "done" /\ peerClosed
  /\ clPc["main"] = "idle" /\ nSigClose = 1 /\ nConnClose = 1
  /\ closedSig /\ connClosed /\ eventsClosed

(***************************************************************************)
(* Claims about the event stream, the sampler and the store in a session.  *)
(***************************************************************************)
ReadsEvent == ReaderTakes /\ Head(inbox).t = "event"

\* C31: when the event stream holds its full capacity of unconsumed events,
\* the event just read is the one dropped and the queued ones are all kept;
\* in every case the consumer gets the events in the order the reader read
\* them, as a subsequence of the events read.
C31_DropNewestKeepOrder ==
  /\ [](Len(events) <= EventsCap)
  /\ [][ReadsEvent =>
          IF Len(events) = EventsCap
            THEN events' = events
            ELSE events' = Append(events, Head(inbox).name)]_vars
  /\ [][\/ events' = events
        \/ events # <<>> /\ events' = Tail(events) /\ ~ReaderTakes
        \/ ReadsEvent /\ events' = Append(events, Head(inbox).name)]_vars

\* The stream is full of two different events and the reader stands before
\* a third.
C31_Witness ==
  /\ Len(events) = EventsCap
  /\ events[1] # events[2]
  /\ rdPc = "read" /\ inbox # <<>> /\ Head(inbox).t = "event"
  /\ Head(inbox).name # events[Len(events)]

\* The store holds the last sample, and nothing else in it has changed.
HoldsLastSample(before, after) ==
  /\ Get(after, lastSample.path) = [v |-> lastSample.pos, ok |-> TRUE]
  /\ DOMAIN after = DOMAIN before \cup {lastSample.path}
  /\ \A k \in DOMAIN before \ {lastSample.path} : after[k] = before[k]

SampleRecorded == smPc = "w.pos" /\ smPc' # "w.pos"
SamplerWrites == smPc # "save" /\ smPc' = "save"

\* C33: every successful sample updates the last-sample slot and the
\* store's entry for the sampled path, and the sampler writes the file only
\* when at least the coarse interval has passed since its previous write:
\* with a tick every second, two of its writes are at least SaveEvery ticks
\* apart.
C33_SamplerWritesEverySaveEvery ==
  /\ [][SampleRecorded =>
          /\ lastSample'.path = lastSample.path
          /\ Get(tsM', lastSample'.path) = [v |-> lastSample'.pos, ok |-> TRUE]]_vars
  /\ [][SamplerWrites => (SampleRecorded /\ savedAgo >= SaveEvery /\ savedAgo' = 0)]_vars
  /\ [][savedAgo' # savedAgo =>
          \/ smPc = "wait" /\ smPc' = "sample" /\ savedAgo' = savedAgo + 1
          \/ SamplerWrites /\ savedAgo' = 0]_vars
  /\ [][(smPc = "wait" /\ smPc' = "sample") =>
          savedAgo' = (IF savedAgo < SaveEvery THEN savedAgo + 1 ELSE savedAgo)]_vars

\* Two seconds after its last write the sampler has a sample in hand that it
\* will record and not write.
C33_Witness ==
  /\ smPc = "w.pos" /\ savedAgo = SaveEvery - 1
  /\ DOMAIN tsM # {}

Flushes == evPc = "idle" /\ evPc' = "pos.index"

\* C34: the last sample is read and written only under its lock, so the
\* pair flushLastSample puts into the store is a pair one run of the sampler
\* recorded, never the path of one sample with the offset of another.
C34_FlushReadsWholeSample ==
  /\ [][lastSample' # lastSample =>
          \/ smPc = "sample" /\ smPc' = "w.pos" /\ lastSample'.pos = lastSample.pos
          \/ smPc = "w.pos" /\ smPc' # "w.pos" /\ lastSample'.path = lastSample.path]_vars
  /\ [][Flushes =>
          /\ smPc # "w.pos"
          /\ lastSample' = lastSample
          /\ (ResumeState /\ lastSample.path # "") =>
               Get(tsM', lastSample.path) = [v |-> lastSample.pos, ok |-> TRUE]]_vars

\* The event task has flushed a sample taken on one entry while the sampler
\* is at work on its next sample on another entry.
C34_Witness ==
  /\ evPc = "pos.index" /\ smPc = "w.pos"
  /\ Get(tsM, lastSample.path).ok = FALSE
  /\ DOMAIN tsM # {}

(***************************************************************************)
(* C35: the store is used by one task at a time: no two of the foreground, *)
(* event and sampler tasks are inside Set or Save of the one store at the  *)
(* same moment.                                                            *)
(* TimestampStore has no lock (timestamps.go:14-18) and its callers take   *)
(* none around it: the sampler calls Set and Save after it has released    *)
(* a.lastMu (app.go:491-497).  A task is inside Save from its path check   *)
(* to its rename.                                                          *)
(***************************************************************************)
InsideSave == {c \in Tasks : svPc[c] # "idle"}

C35_OneTaskInsideStore == Cardinality(InsideSave) <= 1

(***************************************************************************)
(* persistPosition query by query (app.go:282-296), as the event task runs *)
(* it on end-file (app.go:314-315): the offset and the path come from two  *)
(* round trips, and the subprocess goes on between them.                   *)
(***************************************************************************)
\* The playback offset the subprocess reports while it plays entry p, in
\* tenths of a second: every entry is at an offset of its own.
TimePosOf(p) == 10 * (p + 1)

\* pos, err := GetFloat("time-pos") (app.go:286-289): with an error, or with
\* resume disabled, persistPosition returns and the handler goes on.
EvEndOffset ==
  /\ Alive /\ evPc = "idle"
  /\ \/ /\ ResumeState /\ "ok" \in Outcomes /\ mpvPos >= 0
        /\ evArg' = TimePosOf(mpvPos)
        /\ evCmds' = <<GetTimePos>>
        /\ evPc' = "end.path"
     \/ /\ evArg' = evArg
        /\ evCmds' = IF ResumeState THEN <<GetTimePos>> ELSE <<>>
        /\ evPc' = "end.arm"
  /\ UNCHANGED <<Index, pauseAfterLoad, mpvPos, runState, tsM, fgSide, lastSample,
                 handlerRest>>

\* path, err := GetString("path"), the fallback a.Playlist[a.Index], Set and
\* Save (app.go:290-295).
EvEndPath ==
  /\ Alive /\ evPc = "end.path"
  /\ \/ /\ "ok" \in Outcomes /\ mpvPos >= 0
        /\ tsM' = SetMap(tsM, MpvPath(mpvPos), evArg)
        /\ evPc' = "end.arm"
        /\ UNCHANGED runState
     \/ IF InRange(Index)
          THEN /\ tsM' = SetMap(tsM, PlaylistAt(Index), evArg)
               /\ evPc' = "end.arm"
               /\ UNCHANGED runState
          ELSE /\ runState' = "panic"
               /\ UNCHANGED <<tsM, evPc>>
  /\ evArg' = 0
  /\ evCmds' = evCmds \o <<GetPath>>
  /\ UNCHANGED <<Index, pauseAfterLoad, mpvPos, fgSide, lastSample, handlerRest>>

NextPair ==
  \/ EvEndOffset \/ EvEndPath \/ EndArm
  \/ EvNext
  \/ MpvMoves
  \/ DoneCloses

SpecPair == InitSessionWith({TRUE}) /\ [][NextPair]_vars

(***************************************************************************)
(* C36: every (path, offset) pair in the store was a state of the          *)
(* subprocess: the offset stored for a path is the playback offset of that *)
(* path, also when the subprocess changes entry between the query of the   *)
(* offset and the query of the path.                                       *)
(***************************************************************************)
C36_StoredPairsSimultaneous ==
  \A p \in 0..(MpvLen - 1) :
    LET g == Get(tsM, MpvPath(p)) IN g.ok => g.v = TimePosOf(p)

(***************************************************************************)
(* C37: a jump-to-index that fails leaves a.Index as it was before the     *)
(* operation.  Once the transport is closed every command fails            *)
(* (Outcomes), so a Load that starts then has a failing jump: its step     *)
(* from the bounds check on must not change a.Index.                       *)
(***************************************************************************)
C37_FailedJumpKeepsIndex ==
  [][(closedSig /\ fgPc = "load.check" /\ fgPc' = "load.persist") => Index' = Index]_vars

(***************************************************************************)
(* Manual navigation with the notifications it causes.  The subprocess     *)
(* answers a navigation command that changes its entry with end-file for   *)
(* the entry it leaves and file-loaded for the one it starts; the event    *)
(* task takes them from c.events in that order (app.go:299) while the      *)
(* foreground task goes on with Next or Prev (app.go:217-223, 240-246).    *)
(* The session keeps no resume state and the subprocess changes entry only *)
(* when it is told to.                                                     *)
(***************************************************************************)
ipcNoEvents == <<nextID, pending, chBuf, closedSig, connClosed, closeOnce, nSigClose,
                 nConnClose, panicked, eventsClosed, nEventsClose,
                 sawEnd, inbox, sent, peerClosed, rdPc, rdCh, rdId,
                 clPc, cPc, cId, cSite, cDeadline, cExpired, cOut, cGot>>

manualRest == <<ipcNoEvents, storeRest, config, smPc, savedAgo, evArg>>

\* The navigation command of Next and Prev (app.go:208, 217, 231, 240) and
\* what the subprocess announces for it.
ManualJump ==
  /\ Alive /\ fgPc = "nav.branch"
  /\ events = <<>>
  /\ LET cmd == NavCommand(fgArg, Index)
     IN /\ \E o \in Outcomes : mpvPos' \in PosAfter(cmd, o)
        /\ fgCmds' = Append(fgCmds, cmd)
  /\ events' = IF mpvPos' # mpvPos THEN << "end-file", "file-loaded" >> ELSE events
  /\ fgPc' = IF AtEnd(fgArg, Index) THEN "nav.wrapped" ELSE "nav.resync"
  /\ UNCHANGED <<Index, pauseAfterLoad, runState, tsM, fgArg, fgRet, evSide, manualRest>>

\* case "end-file" with resume disabled: persistPosition returns at once
\* (app.go:283-285, 314-315).
TakeEndFile ==
  /\ Alive /\ evPc = "idle" /\ ~ResumeState
  /\ events # <<>> /\ Head(events) = "end-file"
  /\ events' = Tail(events)
  /\ evCmds' = <<>>
  /\ evPc' = "end.arm"
  /\ UNCHANGED <<Index, pauseAfterLoad, mpvPos, runState, tsM, fgSide, lastSample,
                 manualRest>>

\* case "file-loaded": a.syncIndex() (app.go:320-321).
TakeFileLoaded ==
  /\ Alive /\ evPc = "idle"
  /\ events # <<>> /\ Head(events) = "file-loaded"
  /\ events' = Tail(events)
  /\ \E i \in syncIndex : Index' = i
  /\ evCmds' = <<GetPlaylistPos>>
  /\ evPc' = "fl.restore"
  /\ UNCHANGED <<pauseAfterLoad, mpvPos, runState, tsM, fgSide, lastSample, manualRest>>

NextManual ==
  \/ \E dir \in {1, 0 - 1} : NextPrevKey(dir)
  \/ NavPersist \/ NavSync \/ ManualJump \/ NavWrapped \/ NavResync \/ NavFinish
  \/ RunAfterRune
  \/ TakeEndFile \/ EndArm
  \/ TakeFileLoaded \/ FlRestore \/ FlPause
  \/ EvNext
  \/ DoneCloses

SpecManual == InitSessionWith({FALSE}) /\ [][NextManual]_vars

(***************************************************************************)
(* C38: with continuous and autoplay both disabled, the entry a manual     *)
(* Next or Prev loads is not auto-paused: the pause-after-load flag is     *)
(* false when the handler of that entry's file-loaded tests it.            *)
(***************************************************************************)
C38_ManualLoadNotPaused ==
  (~Continuous /\ ~AutoPlay /\ evPc = "fl.pause") => ~pauseAfterLoad

(***************************************************************************)
(* A session with resume disabled, from the start of Run: the keys and     *)
(* command lines, the events, a subprocess that moves on its own, and the  *)
(* sampler from the first statement of periodicSaveLoop (app.go:53, 463).  *)
(***************************************************************************)
\* if !a.ResumeState || a.Timestamps == nil { return } (app.go:464-466).
SamplerStart ==
  /\ Alive /\ smPc = "start"
  /\ smPc' = IF ~ResumeState THEN "done" ELSE "wait"
  /\ UNCHANGED <<ipcVars, storeVars, Index, pauseAfterLoad, mpvPos, runState, fgSide,
                 evSide, config, evArg, savedAgo>>

InitOff == InitApp({FALSE}) /\ smPc = "start"

NextOff ==
  \/ ForegroundStep
  \/ EventStep
  \/ SamplerStart
  \/ MpvMoves
  \/ DoneCloses

SpecOff == InitOff /\ [][NextOff]_vars

(***************************************************************************)
(* C39: with resume disabled no key, command line, event or tick changes   *)
(* the store or its backing file, the sampler returns before it queries    *)
(* anything, no handler queries the offset or the path for the store, and  *)
(* file-loaded issues no resume seek.                                      *)
(***************************************************************************)
StoreQueries(cmds) ==
  Issued(cmds, GetTimePos.name) \/ Issued(cmds, GetPath.name)

C39_ResumeDisabledTouchesNothing ==
  /\ [][~ResumeState => UNCHANGED <<tsM, tsPath, fsName, fsData>>]_vars
  /\ [](~ResumeState => smPc \in {"start", "done"})
  /\ [](~ResumeState => ~StoreQueries(fgCmds) /\ ~StoreQueries(evCmds))
  /\ [](~ResumeState => ~Issued(evCmds, "seek absolute"))

\* With resume disabled a file-loaded was handled to its end, the sampler
\* has returned and a quit has run persistPosition.
C39_Witness ==
  /\ ~ResumeState
  /\ evPc = "done" /\ Issued(evCmds, GetPlaylistPos.name)
  /\ smPc = "done"
  /\ runState = "nil.quit"

====
